---- MODULE Spec2Model ----
(***************************************************************************)
(* The execution kernel of imrabo: KernelExecutionService (kernel/         *)
(* execution.py) driving the LlamaCppProcessAdapter (adapters/llama_cpp/   *)
(* process.py) and the FileSystemArtifactResolver (adapters/storage_fs.py).*)
(*                                                                         *)
(* KernelExecutionService.execute is a generator: the code between two     *)
(* yields runs without interruption, and the generators of several         *)
(* requests on one kernel are advanced in any interleaving.  One action    *)
(* below is one resumption of one generator, from the yield it is          *)
(* suspended at to the next yield (or to its end).                         *)
(***************************************************************************)
EXTENDS Integers, Sequences, FiniteSets, TLC

\* ------------------------------------------------------------------ bounds
\* stop_runtime calls in succession
MaxStops == 3
\* the iterations of start_runtime's polling loop (30 in the code)
MaxPolls == 2
\* process 1 and the processes start_runtime spawns
MaxProcs == 3
\* load() calls made directly on one adapter
MaxLoads == 2
\* the lines in one response of the engine to the adapter's execute()
MaxBody == 3
Pids == 1..MaxProcs

\* What runtime.pid holds: no file ("absent"), text that int() rejects
\* ("corrupt"), "0" ("zero"), the pid of a process that is no daemon
\* ("stale"), or the pid of one of the processes Pids.
Content(c) == [content |-> c, pid |-> 0]
PidRecord(p) == [content |-> "pid", pid |-> p]
\* Requests made to one kernel.
MaxRequests == 2
\* "streaming" results one engine call may yield.
MaxStreaming == 1

Requests == 1..MaxRequests

\* ------------------------------------------------------- artifact registry
\* A path below models_dir: models_dir / model / (name.ext).
File(m, n, e) == [model |-> m, name |-> n, ext |-> e]
\* Python's None where a path is expected.
NoPath == File("", "", "")
\* models_dir / model_id
ModelDir(m) == File(m, "", "")

\* An artifact reference "model:<model>/variant:<variant>"; variant "none"
\* is a reference without a variant part.
Ref(m, v) == [model |-> m, variant |-> v]
NoRef == Ref("", "")

\* The JSON registry: model id -> variants, each with its declared files (after
\* the fixture of tests/registry and the scenario of the design document, whose
\* only file is weights.bin).
Registry ==
  [m1 |-> << [id |-> "v1", files |-> << File("m1", "model-v1", "gguf"),
                                        File("m1", "tokenizer", "json") >>],
             [id |-> "v2", files |-> << File("m1", "model-v2", "gguf") >>] >>,
   m2 |-> << [id |-> "v1", files |-> << File("m2", "weights", "bin") >>] >>]

RefA == Ref("m1", "v1")
RefB == Ref("m1", "v2")
RefBin == Ref("m2", "v1")
RefUnknown == Ref("mx", "v1")
\* The references requests name.
RequestRefs == {RefA, RefB, RefBin, RefUnknown}

Range(s) == {s[i] : i \in DOMAIN s}

VariantFiles(m) == UNION {Range(Registry[m][i].files) : i \in DOMAIN Registry[m]}
AllFiles == UNION {VariantFiles(m) : m \in DOMAIN Registry}

\* What is at a final path: nothing, a file whose SHA-256 is the declared one,
\* or a file with another SHA-256.
FileStates == {"absent", "good", "bad"}

\* What one download attempt does: the content arrives and has the declared
\* hash, the content arrives with another hash, or the request raises.
DownloadOutcomes == {"ok", "bad_sum", "net_error"}
\* One outcome per declared file of ref, for the downloads ensure_available may attempt.
OutcomeChoices(n) == [1..n -> DownloadOutcomes]

NoConfig == [model_id |-> "", id |-> "", files |-> << >>]

\* for v in variants if v["id"] == variant_id: the first match
FirstVariant(variants, vid) ==
  LET hits == {i \in DOMAIN variants : variants[i].id = vid}
  IN IF hits = {} THEN 0 ELSE CHOOSE i \in hits : \A j \in hits : i <= j

_get_model_config(ref) ==
  IF ref.model \notin DOMAIN Registry THEN NoConfig
  ELSE LET variants == Registry[ref.model]
           i == IF ref.variant = "none" THEN 1 ELSE FirstVariant(variants, ref.variant)
       IN IF Len(variants) = 0 \/ i = 0 THEN NoConfig
          ELSE [model_id |-> ref.model, id |-> variants[i].id, files |-> variants[i].files]

Handle(ref, avail, loc) == [ref |-> ref, is_available |-> avail, location |-> loc]
\* Python's None where a handle is expected.
NoHandle == Handle(NoRef, FALSE, NoPath)

\* next(f for f in files if f.endswith(".gguf")), None when there is none
MainGguf(config) ==
  LET hits == {i \in DOMAIN config.files : config.files[i].ext = "gguf"}
  IN IF hits = {} THEN NoPath
     ELSE config.files[CHOOSE i \in hits : \A j \in hits : i <= j]

resolve(ref, fs) ==
  LET config == _get_model_config(ref)
      main_gguf == MainGguf(config)
  IN IF config = NoConfig THEN Handle(ref, FALSE, NoPath)
     ELSE IF main_gguf = NoPath \/ fs[main_gguf] = "absent"
          THEN Handle(ref, FALSE, ModelDir(config.model_id))
          ELSE Handle(ref, TRUE, main_gguf)

\* _download_file: the content goes to target.tmp; only content with the
\* expected hash is moved over the target, and target.tmp is always removed.
_download_file(target, fs, outcome) ==
  IF outcome = "ok"
  THEN [success |-> TRUE, fs |-> [fs EXCEPT ![target] = "good"]]
  ELSE [success |-> FALSE, fs |-> fs]

RECURSIVE EnsureLoop(_, _, _, _)
\* The for loop of ensure_available over config["files"], from file i on.
EnsureLoop(fileseq, i, fs, outcomes) ==
  IF i > Len(fileseq) THEN [raised |-> "", fs |-> fs]
  ELSE IF fs[fileseq[i]] = "good" THEN EnsureLoop(fileseq, i + 1, fs, outcomes)
  ELSE LET d == _download_file(fileseq[i], fs, outcomes[i])
       IN IF d.success THEN EnsureLoop(fileseq, i + 1, d.fs, outcomes)
          ELSE [raised |-> "Failed to download and verify", fs |-> d.fs]

\* ensure_available(ref) on file store fs, outcomes[i] being what the download
\* of the i-th declared file does if it is attempted.
ensure_available(ref, fs, outcomes) ==
  LET handle == resolve(ref, fs)
      config == _get_model_config(ref)
  IN IF handle.is_available THEN [raised |-> "", fs |-> fs, handle |-> handle]
     ELSE IF config = NoConfig
          THEN [raised |-> "Could not resolve config", fs |-> fs, handle |-> NoHandle]
          ELSE LET l == EnsureLoop(config.files, 1, fs, outcomes)
               IN IF l.raised # "" THEN [raised |-> l.raised, fs |-> l.fs, handle |-> NoHandle]
                  ELSE [raised |-> "", fs |-> l.fs, handle |-> resolve(ref, l.fs)]

\* ------------------------------------------------------------------- state
VARIABLES
  files,               \* the file store: final path -> FileStates
  current_handle,      \* KernelExecutionService._current_handle
  is_engine_loaded,    \* KernelExecutionService._is_engine_loaded
  loaded_artifact_ref, \* the attribute the kernel sets on the engine adapter
  model_path,          \* LlamaCppProcessAdapter.model_path
  process,             \* LlamaCppProcessAdapter.process: index into procs, 0 for None
  server_ready,        \* LlamaCppProcessAdapter.server_ready
  procs,               \* every engine process spawned so far
  pc,                  \* per request: the yield its generator is suspended at
  req,                 \* per request: request.artifact_ref
  stream,              \* per request: the results yielded so far
  calls,               \* per request: the adapter and resolver calls the kernel made for it
  resolved,            \* per request: how its ensure_available call ended
  execRef,             \* per request: the artifact the engine it executes on was loaded with
  peers,               \* per request: what ran on the kernel during its lifetime
  pred,                \* per request: the request that finished right before it started
  lastFinished,        \* the request that finished last, 0 if none or the engine was unloaded since
  storeLast            \* the last call made directly on the resolver, and how it ended

\* RuntimeClient.run_prompt: one call, reading one response
VARIABLES
  wire,                \* the bytes of the response body the client has not read yet
  sent,                \* the event lines the response body was made of
  decoder,             \* the incremental UTF-8 decoder: the bytes it holds back
  last_full_content,   \* run_prompt's last_full_content
  deltas,              \* the texts run_prompt yielded so far
  seen,                \* the lines json.loads decoded in run_prompt so far
  clientPc             \* "idle", "reading", "returned", "raised" or "exhausted"

clientVars == << wire, sent, decoder, last_full_content, deltas, seen, clientPc >>

\* The token file, and who holds which token
VARIABLES
  tokenFile,           \* the content of runtime.token: "absent", "empty" or a token
  serverToken,         \* RUNTIME_AUTH_TOKEN of runtime/server.py, "unset" before its import
  clientToken,         \* RuntimeClient._token of the last client built, "unset" before
  lastResponse,        \* the last HTTP request made and how it was answered
  lastOp               \* the operation of the last step that touched tokens or HTTP

authVars == << tokenFile, serverToken, clientToken, lastResponse, lastOp >>

\* POST /run of runtime/server.py: one request
VARIABLES
  engineLines,         \* the lines of the engine's response infer has not read yet
  scheduled,           \* the token_queue.put calls handed to the event loop, not run yet
  token_queue,         \* stream_tokens' token_queue
  sseOut,              \* the records stream_tokens has yielded
  emitted,             \* the tokens stream_callback was called with
  workerPc,            \* llm_engine.infer in the executor: "idle", "running", "returned", "raised"
  handlerPc            \* stream_tokens: "idle", "awaiting_infer", "draining", "finished"

queueVars == << engineLines, scheduled, token_queue, sseOut, emitted, workerPc, handlerPc >>

\* start_runtime, stop_runtime and the daemon processes
VARIABLES
  daemonKind,          \* the server module process 1 runs: "adapter" or "runtime"
  daemons,             \* pid -> "none" (no such process), "starting" or "serving" (bound to the port)
  termPending,         \* the processes that have received SIGTERM and have not exited yet
  nextPid,             \* the pid the next Popen returns
  pidFile,             \* runtime.pid: what it holds ("absent" when there is no file)
  pidRead,             \* stop_runtime: what the record held when get_saved_pid read it
  stopPc,              \* stop_runtime: where the call is
  stopResult,          \* what stop_runtime returned: "none", "success" or "failure"
  signals,             \* what stop_runtime passed to os.kill, in order
  stopCalls,           \* how many stop_runtime calls were made in succession
  startPc,             \* start_runtime: where the call is
  startResult,         \* what start_runtime returned: "none", "success" or "failure"
  polls,               \* start_runtime: iterations of the polling loop done
  spawnedPid,          \* start_runtime: process.pid, 0 before Popen
  daemonEngine,        \* the daemons whose llama-server (llm_engine) process is alive
  shutdownAsked        \* the daemons that have handled a POST /shutdown

procVars == << daemons, termPending >>
stopCall == << pidRead, stopPc, stopResult, signals, stopCalls >>
startCall == << startPc, startResult, polls, spawnedPid >>
stopVars == << daemonKind, procVars, nextPid, pidFile, stopCall, startCall, daemonEngine,
              shutdownAsked >>

\* Calls made directly on the kernel service and on the engine adapter
VARIABLES
  lastUnload,          \* the last unload_engine() call: what it found and did
  unloadedUnder,       \* per request: where it was when another request's error handler
                       \* unloaded a running engine, "" if that never happened
  adapterCall,         \* the last load() / unload() called directly on the adapter
  genPc,               \* the adapter's execute() generator: where it is suspended
  genOut,              \* the statuses that generator has yielded
  genFailure,          \* the transport failure its request met, "none" if none
  genSent,             \* the lines the engine put in the response to that request
  genBody,             \* the lines of text response.iter_lines has not given out yet
  genResults           \* the output of the streaming results that generator has yielded

generator == << genPc, genOut, genFailure, genSent, genBody, genResults >>
adapterDirect == << adapterCall, generator >>
directVars == << lastUnload, unloadedUnder, adapterDirect >>

\* Everything outside the kernel's requests, its engine adapter and its resolver.
peripheryVars == << clientVars, authVars, queueVars, stopVars, directVars >>

vars == << files, current_handle, is_engine_loaded, loaded_artifact_ref, model_path,
           process, server_ready, procs, pc, req, stream, calls, resolved, execRef,
           peers, pred, lastFinished, storeLast, peripheryVars >>

kernelVars == << current_handle, is_engine_loaded, loaded_artifact_ref >>
adapterVars == << model_path, process, server_ready, procs >>

Result(status, msg) == [status |-> status, msg |-> msg]

Active(r) == pc[r] \notin {"new", "done"}
ActiveSet == {r \in Requests : Active(r)}

\* The file stores a kernel run starts from: nothing downloaded yet, everything
\* downloaded and valid, or every file present with a wrong hash.
UniformStores == {[f \in AllFiles |-> s] : s \in FileStates}

NoCall == [op |-> "none", ref |-> NoRef, raised |-> "", handle |-> NoHandle]

\* KernelExecutionService.__init__ and LlamaCppProcessAdapter.__init__
KernelInit ==
  /\ storeLast = NoCall
  /\ current_handle = NoHandle
  /\ is_engine_loaded = FALSE
  /\ loaded_artifact_ref = NoRef
  /\ model_path = NoPath
  /\ process = 0
  /\ server_ready = FALSE
  /\ procs = << >>
  /\ pc = [r \in Requests |-> "new"]
  /\ req = [r \in Requests |-> NoRef]
  /\ stream = [r \in Requests |-> << >>]
  /\ calls = [r \in Requests |-> << >>]
  /\ resolved = [r \in Requests |-> "pending"]
  /\ execRef = [r \in Requests |-> NoRef]
  /\ peers = [r \in Requests |-> {}]
  /\ pred = [r \in Requests |-> 0]
  /\ lastFinished = 0

\* No run_prompt call has been made.
ClientIdle ==
  /\ wire = << >>
  /\ sent = << >>
  /\ decoder = << >>
  /\ last_full_content = << >>
  /\ deltas = << >>
  /\ seen = << >>
  /\ clientPc = "idle"

\* Nothing has been done about tokens; the file is as the bootstrap left it.
AuthIdle ==
  /\ tokenFile = "t1"
  /\ serverToken = "unset"
  /\ clientToken = "unset"
  /\ lastResponse = [server |-> "none", endpoint |-> "none", scheme |-> "none",
                     token |-> "none", secret |-> "none", status |-> 0, handled |-> FALSE]
  /\ lastOp = "none"

\* No /run request is being served by runtime/server.py.
QueueIdle ==
  /\ engineLines = << >>
  /\ scheduled = << >>
  /\ token_queue = << >>
  /\ sseOut = << >>
  /\ emitted = << >>
  /\ workerPc = "idle"
  /\ handlerPc = "idle"

\* No daemon runs and stop_runtime has not been called.
StopIdle ==
  /\ daemonKind = "adapter"
  /\ daemons = [p \in Pids |-> "none"]
  /\ termPending = {}
  /\ nextPid = 2
  /\ pidFile = Content("absent")
  /\ pidRead = Content("none")
  /\ stopPc = "idle"
  /\ stopResult = "none"
  /\ signals = << >>
  /\ stopCalls = 0
  /\ startPc = "idle"
  /\ startResult = "none"
  /\ polls = 0
  /\ spawnedPid = 0
  /\ daemonEngine = {}
  /\ shutdownAsked = {}

NoUnload == [called |-> FALSE, loaded |-> FALSE, unloads |-> 0, after |-> 0]
NoAdapterCall == [op |-> "none", raised |-> "", outcome |-> "", present |-> FALSE,
                  spawned |-> 0, before |-> 0]

\* Nothing was called directly on the kernel service or the adapter.
DirectIdle ==
  /\ lastUnload = NoUnload
  /\ unloadedUnder = [r \in Requests |-> ""]
  /\ adapterCall = NoAdapterCall
  /\ genPc = "idle"
  /\ genOut = << >>
  /\ genFailure = "none"
  /\ genSent = << >>
  /\ genBody = << >>
  /\ genResults = << >>

PeripheryIdle == ClientIdle /\ AuthIdle /\ QueueIdle /\ StopIdle /\ DirectIdle

Init ==
  /\ files \in UniformStores
  /\ KernelInit
  /\ PeripheryIdle

\* ------------------------------------------- LlamaCppProcessAdapter (engine)
\* What the environment does to one load(): the llama-server binary is missing,
\* Popen raises, the server answers the health probe with status ok, the probes
\* only fail with ConnectionError / HTTPError until the retries are used up,
\* a probe raises an exception _wait_for_ready does not catch (requests'
\* ReadTimeout, a body that is not JSON), or the spawned process exits by
\* itself before it is ready (process.poll() is not None at every attempt).
LoadOutcomes == {"no_binary", "popen_fails", "ready", "never_ready", "probe_raises", "exits"}
\* One more for a load() called directly: GET /health answers status ok while
\* the engine would fail an inference request.
ProbeOutcomes == LoadOutcomes \cup {"health_only"}

\* What the engine's response does at one resumption of the adapter's execute
\* generator: a data line without stop, a data line with stop, the end of the
\* lines, a ConnectionError / HTTPError / Timeout, or another exception.
EngineOutcomes == {"content", "stop", "end", "transport", "uncaught"}

Alive(ps) == {i \in DOMAIN ps : ps[i].alive}

\* LlamaCppProcessAdapter.unload on adapter state (proc, ready) and processes ps
unload(proc, ready, ps) ==
  IF proc # 0 /\ ps[proc].alive
  THEN [process |-> 0, server_ready |-> FALSE, procs |-> [ps EXCEPT ![proc].alive = FALSE]]
  ELSE [process |-> proc, server_ready |-> ready, procs |-> ps]

\* LlamaCppProcessAdapter.load(handle), the environment doing outcome
load(handle, outcome) ==
  LET unchanged == [model_path |-> model_path, process |-> process,
                    server_ready |-> server_ready, procs |-> procs]
      spawned == Append(procs, [ref |-> handle.ref, path |-> handle.location, alive |-> TRUE,
                                serves |-> outcome = "ready"])
      exited == Append(procs, [ref |-> handle.ref, path |-> handle.location, alive |-> FALSE,
                               serves |-> FALSE])
      p == Len(spawned)
  IN IF handle = NoHandle THEN [raised |-> "AttributeError"] @@ unchanged
     ELSE IF handle.location = NoPath THEN [raised |-> "requires a Path location"] @@ unchanged
     ELSE IF outcome = "no_binary"
          THEN [raised |-> "llama-server.exe not found", model_path |-> handle.location,
                process |-> process, server_ready |-> server_ready, procs |-> procs]
     ELSE IF outcome = "popen_fails"
          THEN [raised |-> "Failed to start llama-server", model_path |-> handle.location,
                process |-> process, server_ready |-> server_ready, procs |-> procs]
     ELSE IF outcome \in {"ready", "health_only"}
          THEN [raised |-> "", model_path |-> handle.location,
                process |-> p, server_ready |-> TRUE, procs |-> spawned]
     ELSE IF outcome = "never_ready"
          THEN [raised |-> "llama-server failed to become ready", model_path |-> handle.location]
               @@ unload(p, server_ready, spawned)
     ELSE IF outcome = "exits"
          THEN [raised |-> "llama-server failed to become ready", model_path |-> handle.location]
               @@ unload(p, server_ready, exited)
     ELSE [raised |-> "probe exception", model_path |-> handle.location,
           process |-> p, server_ready |-> server_ready, procs |-> spawned]

\* The artifact the adapter's current engine process was spawned with.
EngineRef == IF process = 0 THEN NoRef ELSE procs[process].ref

\* ----------------------------------------------- KernelExecutionService
Emit(r, status, msg) == stream' = [stream EXCEPT ![r] = Append(@, Result(status, msg))]
Called(r, what) == calls' = [calls EXCEPT ![r] = Append(@, what)]
Goto(r, label) == pc' = [pc EXCEPT ![r] = label]

Count(r, status) == Cardinality({i \in DOMAIN stream[r] : stream[r][i].status = status})

\* Mutant: the reuse check is lost and every request reloads.
NeedsLoad_Always(handle) == TRUE

\* line 47: the engine must be (re)loaded for this handle
NeedsLoad(handle) == ~is_engine_loaded \/ handle.ref # loaded_artifact_ref

\* Mutant: the availability check of line 43 is lost.
AfterResolve_IgnoresAvailability(e) ==
  IF e.raised # "" THEN [status |-> "error", msg |-> e.raised, pc |-> "error"]
  ELSE IF NeedsLoad(e.handle)
       THEN [status |-> "loading_engine", msg |-> "", pc |-> "loading"]
  ELSE [status |-> "executing", msg |-> "", pc |-> "executing"]

\* Mutant: executing is reported before the engine is loaded.
AfterResolve_ExecutingFirst(e) ==
  IF e.raised # "" THEN [status |-> "error", msg |-> e.raised, pc |-> "error"]
  ELSE IF ~e.handle.is_available
       THEN [status |-> "error", msg |-> "Artifact not available", pc |-> "error"]
  ELSE IF NeedsLoad(e.handle)
       THEN [status |-> "executing", msg |-> "", pc |-> "loading"]
  ELSE [status |-> "executing", msg |-> "", pc |-> "executing"]

\* lines 42-59: what the kernel yields next, given how ensure_available ended
AfterResolve(e) ==
  IF e.raised # "" THEN [status |-> "error", msg |-> e.raised, pc |-> "error"]
  ELSE IF ~e.handle.is_available
       THEN [status |-> "error", msg |-> "Artifact not available", pc |-> "error"]
  ELSE IF NeedsLoad(e.handle)
       THEN [status |-> "loading_engine", msg |-> "", pc |-> "loading"]
  ELSE [status |-> "executing", msg |-> "", pc |-> "executing"]

\* A caller starts iterating execute(request): lines 32-41, up to the first yield.
Start(r, ref) ==
  /\ pc[r] = "new"
  /\ \A s \in Requests : s < r => pc[s] # "new"
  /\ Goto(r, "resolving")
  /\ req' = [req EXCEPT ![r] = ref]
  /\ Emit(r, "resolving", "")
  /\ peers' = [s \in Requests |-> IF s = r THEN ActiveSet
                                  ELSE IF Active(s) THEN peers[s] \cup {r} ELSE peers[s]]
  /\ pred' = [pred EXCEPT ![r] = IF ActiveSet = {} THEN lastFinished ELSE 0]
  /\ UNCHANGED peripheryVars
  /\ UNCHANGED << files, kernelVars, adapterVars, calls, resolved, execRef, lastFinished, storeLast >>

\* lines 42-59: ensure_available, the availability check, the reuse check
StepResolve(r, outcomes) ==
  /\ pc[r] = "resolving"
  /\ LET e == ensure_available(req[r], files, outcomes)
         nxt == AfterResolve(e)
     IN /\ files' = e.fs
        /\ current_handle' = IF e.raised # "" THEN current_handle ELSE e.handle
        /\ resolved' = [resolved EXCEPT ![r] =
                          IF e.raised # "" THEN "raised"
                          ELSE IF e.handle.is_available THEN "available" ELSE "unavailable"]
        /\ Emit(r, nxt.status, nxt.msg)
        /\ Goto(r, nxt.pc)
  /\ Called(r, "ensure_available")
  /\ UNCHANGED peripheryVars
  /\ UNCHANGED << is_engine_loaded, loaded_artifact_ref, adapterVars, req, execRef,
                  peers, pred, lastFinished, storeLast >>

\* lines 54-64: load the engine with self._current_handle, mark it loaded
StepLoad(r, outcome) ==
  /\ pc[r] = "loading"
  /\ LET l == load(current_handle, outcome)
     IN /\ model_path' = l.model_path
        /\ process' = l.process
        /\ server_ready' = l.server_ready
        /\ procs' = l.procs
        /\ IF l.raised # ""
           THEN /\ Emit(r, "error", l.raised)
                /\ Goto(r, "error")
                /\ UNCHANGED << is_engine_loaded, loaded_artifact_ref >>
           ELSE /\ is_engine_loaded' = TRUE
                /\ loaded_artifact_ref' = current_handle.ref
                /\ Emit(r, "executing", "")
                /\ Goto(r, "executing")
  /\ Called(r, "load")
  /\ UNCHANGED peripheryVars
  /\ UNCHANGED << files, current_handle, req, resolved, execRef, peers, pred, lastFinished,
                  storeLast >>

\* One resumption of the adapter's execute generator inside the kernel's for
\* loop (lines 65-66 over process.py 288-328), and what the kernel yields.
EngineStep(r, outcome) ==
  CASE outcome = "content" ->
         /\ Count(r, "streaming") < MaxStreaming
         /\ Emit(r, "streaming", "")
         /\ Goto(r, "forward")
    [] outcome = "stop" ->
         /\ Count(r, "streaming") < MaxStreaming
         /\ Emit(r, "streaming", "stop")
         /\ Goto(r, "forward_stop")
    [] outcome = "end" ->
         /\ Emit(r, "completed", "engine")
         /\ Goto(r, "engine_final")
    [] outcome = "transport" ->
         /\ Emit(r, "error", "transport")
         /\ Goto(r, "engine_final")
    [] outcome = "uncaught" ->
         /\ Emit(r, "error", "engine exception")
         /\ Goto(r, "error")

\* line 65: call the adapter's execute and take its first item
StepExecute(r, outcome) ==
  /\ pc[r] = "executing"
  /\ IF ~server_ready
     THEN /\ Emit(r, "error", "llama-server is not ready")
          /\ Goto(r, "error")
          /\ UNCHANGED execRef
     ELSE /\ execRef' = [execRef EXCEPT ![r] = EngineRef]
          /\ EngineStep(r, outcome)
  /\ Called(r, "execute")
  /\ UNCHANGED peripheryVars
  /\ UNCHANGED << files, kernelVars, adapterVars, req, resolved, peers, pred, lastFinished,
                  storeLast >>

\* lines 65-66: the kernel asks the engine stream for its next item
StepForward(r, outcome) ==
  /\ pc[r] = "forward"
  /\ EngineStep(r, outcome)
  /\ UNCHANGED peripheryVars
  /\ UNCHANGED << files, kernelVars, adapterVars, req, calls, resolved, execRef,
                  peers, pred, lastFinished, storeLast >>

\* process.py 306-328: after a stop line the adapter leaves its loop and yields completed
StepForwardStop(r) ==
  /\ pc[r] = "forward_stop"
  /\ Emit(r, "completed", "engine")
  /\ Goto(r, "engine_final")
  /\ UNCHANGED peripheryVars
  /\ UNCHANGED << files, kernelVars, adapterVars, req, calls, resolved, execRef,
                  peers, pred, lastFinished, storeLast >>

\* lines 68-74: the engine stream is exhausted, the kernel yields its own completed
StepEngineFinal(r) ==
  /\ pc[r] = "engine_final"
  /\ Emit(r, "completed", "Execution finished")
  /\ Goto(r, "completed")
  /\ UNCHANGED peripheryVars
  /\ UNCHANGED << files, kernelVars, adapterVars, req, calls, resolved, execRef,
                  peers, pred, lastFinished, storeLast >>

\* lines 86-88: the generator ends after its completed result
StepCompleted(r) ==
  /\ pc[r] = "completed"
  /\ Goto(r, "done")
  /\ lastFinished' = r
  /\ UNCHANGED peripheryVars
  /\ UNCHANGED << files, kernelVars, adapterVars, req, stream, calls, resolved, execRef,
                  peers, pred, storeLast >>

\* The requests past their load step whose generator has not yielded its last
\* result: about to call the adapter's execute, or inside its stream.
PastLoad == {"executing", "forward", "forward_stop", "engine_final"}

\* Mutant: the handler resets the flag but does not unload the engine.
StepError_NoUnload(r) ==
  /\ pc[r] = "error"
  /\ is_engine_loaded' = FALSE
  /\ Goto(r, "done")
  /\ lastFinished' = r
  /\ UNCHANGED peripheryVars
  /\ UNCHANGED << files, current_handle, loaded_artifact_ref, adapterVars, req, stream,
                  calls, resolved, execRef, peers, pred, storeLast >>

\* lines 83-85: resumed after its error result, the handler unloads the engine
StepError(r) ==
  /\ pc[r] = "error"
  /\ LET u == unload(process, server_ready, procs)
     IN /\ process' = u.process
        /\ server_ready' = u.server_ready
        /\ procs' = u.procs
  /\ unloadedUnder' = [s \in Requests |->
                          IF s # r /\ pc[s] \in PastLoad /\ process # 0 /\ procs[process].alive
                          THEN pc[s] ELSE unloadedUnder[s]]
  /\ is_engine_loaded' = FALSE
  /\ Called(r, "unload")
  /\ Goto(r, "done")
  /\ lastFinished' = r
  /\ UNCHANGED << clientVars, authVars, queueVars, stopVars, lastUnload, adapterDirect >>
  /\ UNCHANGED << files, current_handle, loaded_artifact_ref, model_path, req, stream,
                  resolved, execRef, peers, pred, storeLast >>

\* Mutant: unload_engine forgets the artifact attribute of the adapter.
unload_engine_KeepsRef ==
  /\ lastUnload' = [called |-> TRUE, loaded |-> is_engine_loaded,
                    unloads |-> IF is_engine_loaded THEN 1 ELSE 0, after |-> lastFinished]
  /\ IF is_engine_loaded
     THEN /\ LET u == unload(process, server_ready, procs)
             IN /\ process' = u.process
                /\ server_ready' = u.server_ready
                /\ procs' = u.procs
          /\ is_engine_loaded' = FALSE
          /\ current_handle' = NoHandle
          /\ peers' = [s \in Requests |-> IF Active(s) THEN peers[s] \cup {0} ELSE peers[s]]
          /\ lastFinished' = 0
          /\ UNCHANGED loaded_artifact_ref
     ELSE UNCHANGED << kernelVars, process, server_ready, procs, peers, lastFinished >>
  /\ UNCHANGED << clientVars, authVars, queueVars, stopVars, unloadedUnder, adapterDirect >>
  /\ UNCHANGED << files, model_path, pc, req, stream, calls, resolved, execRef, pred, storeLast >>

\* KernelExecutionService.unload_engine (lines 90-96), a no-op when nothing is
\* loaded; lastUnload keeps what the call found and how often it called the
\* adapter's unload().
unload_engine ==
  /\ lastUnload' = [called |-> TRUE, loaded |-> is_engine_loaded,
                    unloads |-> IF is_engine_loaded THEN 1 ELSE 0, after |-> lastFinished]
  /\ IF is_engine_loaded
     THEN /\ LET u == unload(process, server_ready, procs)
             IN /\ process' = u.process
                /\ server_ready' = u.server_ready
                /\ procs' = u.procs
          /\ is_engine_loaded' = FALSE
          /\ current_handle' = NoHandle
          /\ loaded_artifact_ref' = NoRef
          /\ peers' = [s \in Requests |-> IF Active(s) THEN peers[s] \cup {0} ELSE peers[s]]
          /\ lastFinished' = 0
     ELSE UNCHANGED << kernelVars, process, server_ready, procs, peers, lastFinished >>
  /\ UNCHANGED << clientVars, authVars, queueVars, stopVars, unloadedUnder, adapterDirect >>
  /\ UNCHANGED << files, model_path, pc, req, stream, calls, resolved, execRef, pred, storeLast >>

\* ------------------------------ direct calls on FileSystemArtifactResolver
\* The references callers (the install flow, the tests) hand to the resolver: the
\* requests' references, one without a variant part, one naming no variant.
StoreRefs == RequestRefs \cup {Ref("m1", "none"), Ref("m1", "v9")}

kernelState == << current_handle, is_engine_loaded, loaded_artifact_ref, model_path, process,
                  server_ready, procs, pc, req, stream, calls, resolved, execRef, peers,
                  pred, lastFinished >>

\* resolver.ensure_available(ref)
EnsureAvailableCall(ref, outcomes) ==
  /\ LET e == ensure_available(ref, files, outcomes)
     IN /\ files' = e.fs
        /\ storeLast' = [op |-> "ensure_available", ref |-> ref, raised |-> e.raised,
                         handle |-> e.handle]
  /\ UNCHANGED peripheryVars
  /\ UNCHANGED kernelState

\* resolver.resolve(ref)
ResolveCall(ref) ==
  /\ storeLast' = [op |-> "resolve", ref |-> ref, raised |-> "", handle |-> resolve(ref, files)]
  /\ UNCHANGED peripheryVars
  /\ UNCHANGED << files, kernelState >>

StoreInit ==
  /\ files \in [AllFiles -> FileStates]
  /\ KernelInit
  /\ PeripheryIdle

StoreNext ==
  \/ \E ref \in StoreRefs : \E o \in OutcomeChoices(Len(_get_model_config(ref).files)) :
        EnsureAvailableCall(ref, o)
  \/ \E ref \in StoreRefs : ResolveCall(ref)

\* The resolver called directly, on any file store.
SpecStore == StoreInit /\ [][StoreNext]_vars

Next ==
  \/ \E r \in Requests, ref \in RequestRefs : Start(r, ref)
  \/ \E r \in Requests : \E o \in OutcomeChoices(Len(_get_model_config(req[r]).files)) :
        StepResolve(r, o)
  \/ \E r \in Requests, o \in LoadOutcomes : StepLoad(r, o)
  \/ \E r \in Requests, o \in EngineOutcomes : StepExecute(r, o)
  \/ \E r \in Requests, o \in EngineOutcomes : StepForward(r, o)
  \/ \E r \in Requests : StepForwardStop(r)
  \/ \E r \in Requests : StepEngineFinal(r)
  \/ \E r \in Requests : StepCompleted(r)
  \/ \E r \in Requests : StepError(r)
  \/ unload_engine

Spec == Init /\ [][Next]_vars

\* --------------------------------------------------- RuntimeClient.run_prompt
\* The response body is a sequence of event lines. A line is modelled as a
\* sequence of bytes in which the framing is kept as units: "data:{" opens an
\* envelope, "}" closes one with stop false and "}stop" one with stop true,
\* "\n" ends the line. Between them are the UTF-8 bytes of the content, where
\* the character "é" takes the two bytes "é1" "é2" and every other character
\* takes one byte.
MaxRecords == 3

Chars == {"a", "é"}
\* The contents a snapshot carries.
Texts == {<< >>, <<"a">>, <<"a", "é">>}

Envelope(content, stop) == [kind |-> "envelope", content |-> content, stop |-> stop]
\* An SSE comment line, and a data line whose JSON is not an object.
CommentLine == [kind |-> "comment", content |-> << >>, stop |-> FALSE]
NonObjectLine == [kind |-> "non_object", content |-> << >>, stop |-> FALSE]
Lines == {Envelope(t, b) : t \in Texts, b \in BOOLEAN} \cup {CommentLine, NonObjectLine}

RECURSIVE Utf8(_)
\* str.encode("utf-8")
Utf8(text) ==
  IF text = << >> THEN << >>
  ELSE (IF Head(text) = "é" THEN <<"é1", "é2">> ELSE <<Head(text)>>) \o Utf8(Tail(text))

\* The bytes of one event line on the wire.
Encode(line) ==
  CASE line.kind = "comment" -> <<":", "\n">>
    [] line.kind = "non_object" -> <<"data:[]", "\n">>
    [] OTHER -> <<"data:{">> \o Utf8(line.content)
                  \o <<IF line.stop THEN "}stop" ELSE "}">> \o <<"\n">>

RECURSIVE Wire(_)
Wire(ls) == IF ls = << >> THEN << >> ELSE Encode(Head(ls)) \o Wire(Tail(ls))

RECURSIVE DecodeBuf(_)
\* The incremental decoder on the bytes it holds: the text it gives out, the
\* bytes of an unfinished character it keeps, and whether the bytes are valid.
DecodeBuf(buf) ==
  IF buf = << >> THEN [text |-> << >>, pending |-> << >>, ok |-> TRUE]
  ELSE IF Head(buf) = "é1"
       THEN IF Len(buf) = 1 THEN [text |-> << >>, pending |-> buf, ok |-> TRUE]
            ELSE IF buf[2] = "é2"
                 THEN LET d == DecodeBuf(SubSeq(buf, 3, Len(buf)))
                      IN [d EXCEPT !.text = <<"é">> \o d.text]
                 ELSE [text |-> << >>, pending |-> << >>, ok |-> FALSE]
       ELSE IF Head(buf) = "é2" THEN [text |-> << >>, pending |-> << >>, ok |-> FALSE]
            ELSE LET d == DecodeBuf(Tail(buf))
                 IN [d EXCEPT !.text = <<Head(buf)>> \o d.text]

\* decoder.decode(chunk, final=False)
Decode(pending, chunk) == DecodeBuf(pending \o chunk)

RECURSIVE SplitLines(_)
\* str.splitlines(): the text cut at every line end; what follows the last
\* line end is a line too when it is not empty.
SplitLines(text) ==
  IF text = << >> THEN << >>
  ELSE LET ends == {i \in DOMAIN text : text[i] = "\n"}
       IN IF ends = {} THEN <<text>>
          ELSE LET i == CHOOSE k \in ends : \A j \in ends : k <= j
               IN <<SubSeq(text, 1, i - 1)>> \o SplitLines(SubSeq(text, i + 1, Len(text)))

IsPrefix(p, t) == Len(p) <= Len(t) /\ SubSeq(t, 1, Len(p)) = p

\* One line of text in the loop body: "skip" for a line that does not start
\* with data: or whose JSON does not decode, "non_object" for JSON without
\* .get (AttributeError), "snapshot" for an envelope.
ParseLine(line) ==
  IF line = << >> \/ Head(line) \notin {"data:{", "data:[]"}
  THEN [kind |-> "skip", content |-> << >>, stop |-> FALSE]
  ELSE IF line = <<"data:[]">>
  THEN [kind |-> "non_object", content |-> << >>, stop |-> FALSE]
  ELSE IF /\ Head(line) = "data:{"
          /\ Len(line) >= 2
          /\ line[Len(line)] \in {"}", "}stop"}
          /\ \A i \in 2..(Len(line) - 1) : line[i] \in Chars
  THEN [kind |-> "snapshot", content |-> SubSeq(line, 2, Len(line) - 1),
        stop |-> line[Len(line)] = "}stop"]
  ELSE [kind |-> "skip", content |-> << >>, stop |-> FALSE]

RECURSIVE ProcessLines(_, _, _, _, _)
\* The for loop over text.splitlines(), from line i on: the lines json.loads
\* decoded, last_full_content, the deltas yielded, and how the loop ended
\* ("" at the end of the lines, "returned" at a stop, "raised" at an exception).
ProcessLines(ls, i, last, out, done) ==
  IF i > Len(ls) THEN [last |-> last, deltas |-> out, seen |-> done, end |-> ""]
  ELSE LET p == ParseLine(ls[i])
           delta == IF IsPrefix(last, p.content)
                    THEN SubSeq(p.content, Len(last) + 1, Len(p.content))
                    ELSE p.content
           out2 == IF delta # << >> THEN Append(out, delta) ELSE out
           last2 == IF delta # << >> THEN p.content ELSE last
           done2 == Append(done, p)
       IN CASE p.kind = "skip" -> ProcessLines(ls, i + 1, last, out, done)
            [] p.kind = "non_object" ->
                 [last |-> last, deltas |-> out, seen |-> done2, end |-> "raised"]
            [] OTHER ->
                 IF p.stop
                 THEN [last |-> last2, deltas |-> out2, seen |-> done2, end |-> "returned"]
                 ELSE ProcessLines(ls, i + 1, last2, out2, done2)

\* One pass of the loop over response.aiter_bytes() with the given chunk.
ProcessChunk(pending, last, out, done, chunk) ==
  LET d == Decode(pending, chunk)
      l == ProcessLines(SplitLines(d.text), 1, last, out, done)
  IN IF ~d.ok
     THEN [pending |-> pending, last |-> last, deltas |-> out, seen |-> done, end |-> "raised"]
     ELSE [pending |-> d.pending, last |-> l.last, deltas |-> l.deltas, seen |-> l.seen,
           end |-> l.end]

kernelAll == << files, storeLast, kernelState, directVars >>

\* run_prompt is called and the response (status below 400) begins.
ClientInit ==
  /\ \E n \in 1..MaxRecords : sent \in [1..n -> Lines]
  /\ wire = Wire(sent)
  /\ decoder = << >>
  /\ last_full_content = << >>
  /\ deltas = << >>
  /\ seen = << >>
  /\ clientPc = "reading"

\* aiter_bytes() hands over the next n bytes as one chunk.
ReadChunk(n) ==
  /\ clientPc = "reading"
  /\ n \in 1..Len(wire)
  /\ LET c == ProcessChunk(decoder, last_full_content, deltas, seen, SubSeq(wire, 1, n))
     IN /\ decoder' = c.pending
        /\ last_full_content' = c.last
        /\ deltas' = c.deltas
        /\ seen' = c.seen
        /\ clientPc' = IF c.end = "" THEN "reading" ELSE c.end
  /\ wire' = SubSeq(wire, n + 1, Len(wire))
  /\ UNCHANGED << sent, kernelAll, authVars, queueVars, stopVars >>

\* aiter_bytes() is exhausted: the generator ends without having seen a stop.
EndOfStream ==
  /\ clientPc = "reading"
  /\ wire = << >>
  /\ clientPc' = "exhausted"
  /\ UNCHANGED << wire, sent, decoder, last_full_content, deltas, seen, kernelAll,
                  authVars, queueVars, stopVars >>

ClientNext ==
  \/ \E n \in 1..Len(wire) : ReadChunk(n)
  \/ EndOfStream

\* The kernel as constructed, on an empty models directory.
KernelIdle ==
  /\ files = [f \in AllFiles |-> "absent"]
  /\ KernelInit
  /\ DirectIdle

SpecClientInit ==
  /\ KernelIdle
  /\ ClientInit
  /\ AuthIdle /\ QueueIdle /\ StopIdle

\* One run_prompt call on any response body, cut into chunks in any way.
SpecClient == SpecClientInit /\ [][ClientNext]_vars

\* ------------------------------------- the engine's results through POST /run
\* The bytes stream_events sends for one result: "data: ", the JSON of the
\* output, the two characters backslash and n (the unit "\\n") that the format
\* string holds after the JSON, and one line end.
SseLine(line) ==
  <<"data:{">> \o Utf8(line.content) \o <<IF line.stop THEN "}stop" ELSE "}">>
    \o <<"\\n", "\n">>

RECURSIVE SseWire(_)
SseWire(ls) == IF ls = << >> THEN << >> ELSE SseLine(Head(ls)) \o SseWire(Tail(ls))

\* The outputs of the results kernel.execute yields for one request: the
\* streaming results of the engine's tokens, the last of them with stop true
\* or not, and the completed result with empty content and stop true.
RelayedOutputs(tokens, lastStop) ==
  [i \in 1..(Len(tokens) + 1) |->
     IF i <= Len(tokens) THEN Envelope(tokens[i], lastStop /\ i = Len(tokens))
     ELSE Envelope(<< >>, TRUE)]

\* run_prompt is called and the response of POST /run begins.
RelayInit ==
  /\ \E n \in 1..(MaxRecords - 1) : \E tokens \in [1..n -> Texts], lastStop \in BOOLEAN :
       sent = RelayedOutputs(tokens, lastStop)
  /\ wire = SseWire(sent)
  /\ decoder = << >>
  /\ last_full_content = << >>
  /\ deltas = << >>
  /\ seen = << >>
  /\ clientPc = "reading"

\* One run_prompt call on the response of POST /run, cut into chunks in any way.
SpecRelayInit ==
  /\ KernelIdle
  /\ RelayInit
  /\ AuthIdle /\ QueueIdle /\ StopIdle

SpecRelay == SpecRelayInit /\ [][ClientNext]_vars

\* ------------------------------------------------ the token file and HTTP auth
\* The tokens secrets.token_urlsafe / token_hex can return.
Tokens == {"t1", "t2", "t3"}

\* load_token (cli/client.py, runtime/security.py, internal/security.py): the
\* stripped content of the file, nothing ("none") when the file is missing or empty.
load_token(file) == IF file \in Tokens THEN file ELSE "none"

\* generate_token: a token nobody holds yet.
FreshTokens == Tokens \ {tokenFile, serverToken, clientToken}

\* token = load_token(...); if not token: token = generate_token(); save_token(token)
\* with t the token generate_token returns: the token held and the file afterwards.
LoadOrGenerate(file, t) ==
  IF load_token(file) # "none" THEN [token |-> load_token(file), file |-> file]
  ELSE [token |-> t, file |-> t]

otherThanAuth == << kernelAll, clientVars, queueVars, stopVars >>

\* internal/security.py ensure_token, the bootstrap operation
ensure_token ==
  /\ \E t \in FreshTokens : tokenFile' = LoadOrGenerate(tokenFile, t).file
  /\ lastOp' = "ensure_token"
  /\ UNCHANGED << serverToken, clientToken, lastResponse, otherThanAuth >>

\* RuntimeClient.__init__ -> _load_or_generate_token (every CLI command, and
\* start_runtime / stop_runtime, build a RuntimeClient)
NewRuntimeClient ==
  /\ \E t \in FreshTokens :
       /\ tokenFile' = LoadOrGenerate(tokenFile, t).file
       /\ clientToken' = LoadOrGenerate(tokenFile, t).token
  /\ lastOp' = "RuntimeClient"
  /\ UNCHANGED << serverToken, lastResponse, otherThanAuth >>

\* runtime/server.py is imported: RUNTIME_AUTH_TOKEN = get_runtime_token()
ServerImport ==
  /\ \E t \in FreshTokens :
       /\ tokenFile' = LoadOrGenerate(tokenFile, t).file
       /\ serverToken' = LoadOrGenerate(tokenFile, t).token
  /\ lastOp' = "server_import"
  /\ UNCHANGED << clientToken, lastResponse, otherThanAuth >>

\* The token file is deleted or truncated from outside the program.
TokenFileLost ==
  /\ tokenFile \in Tokens
  /\ tokenFile' \in {"absent", "empty"}
  /\ lastOp' = "file_lost"
  /\ UNCHANGED << serverToken, clientToken, lastResponse, otherThanAuth >>

Endpoints == {"/health", "/status", "/run", "/shutdown"}
\* The Authorization header: missing ("none"), or a scheme with credentials.
Schemes == {"none", "Basic", "bearer", "Bearer"}

\* fastapi.security.HTTPBearer (auto_error): does the dependency hand
\* credentials to verify_token, or answer 401 itself.
HTTPBearer(scheme) == scheme \in {"bearer", "Bearer"}

\* verify_token of adapters/http/fastapi_server.py. RUNTIME_AUTH_TOKEN is not
\* defined in that module (lines 55-63 are comments): the comparison raises
\* NameError, which the server answers with 500.
verify_token_adapter(scheme, token) ==
  IF ~HTTPBearer(scheme) THEN 401
  ELSE IF scheme # "Bearer" THEN 401
  ELSE 500

\* verify_token of runtime/server.py
verify_token_runtime(scheme, token) ==
  IF ~HTTPBearer(scheme) THEN 401
  ELSE IF scheme # "Bearer" \/ token # serverToken THEN 401
  ELSE 200

\* One request to an endpoint; the endpoint function runs (the kernel is
\* called, SIGTERM is sent, ...) only when the dependency let it through.
Request(server, endpoint, scheme, token, status) ==
  /\ lastResponse' = [server |-> server, endpoint |-> endpoint, scheme |-> scheme,
                      token |-> token, secret |-> tokenFile, status |-> status,
                      handled |-> status = 200]
  /\ lastOp' = "request"
  /\ UNCHANGED << tokenFile, serverToken, clientToken, otherThanAuth >>

\* The credentials a header of the given scheme can carry.
Credentials(scheme) == IF scheme = "none" THEN {"none"} ELSE Tokens

AdapterRequest(endpoint, scheme, token) ==
  /\ token \in Credentials(scheme)
  /\ Request("adapter", endpoint, scheme, token, verify_token_adapter(scheme, token))

RuntimeRequest(endpoint, scheme, token) ==
  /\ serverToken # "unset"
  /\ Request("runtime", endpoint, scheme, token, verify_token_runtime(scheme, token))

AuthNext ==
  \/ ensure_token
  \/ NewRuntimeClient
  \/ ServerImport
  \/ TokenFileLost
  \/ \E e \in Endpoints, sc \in Schemes : \E t \in Credentials(sc) : AdapterRequest(e, sc, t)
  \/ \E e \in Endpoints, sc \in Schemes : \E t \in Credentials(sc) : RuntimeRequest(e, sc, t)

AuthInit ==
  /\ tokenFile \in {"absent", "t1"}
  /\ serverToken = "unset"
  /\ clientToken = "unset"
  /\ lastResponse = [server |-> "none", endpoint |-> "none", scheme |-> "none",
                     token |-> "none", secret |-> "none", status |-> 0, handled |-> FALSE]
  /\ lastOp = "none"

SpecAuthInit == KernelIdle /\ ClientIdle /\ QueueIdle /\ StopIdle /\ AuthInit

\* Token bootstrap, clients, server start and HTTP requests in any order.
SpecAuth == SpecAuthInit /\ [][AuthNext]_vars

\* ------------------------------------- POST /run of runtime/server.py
MaxEngineLines == 2

\* A decoded line of the engine's streaming response: data.get("content")
\* ("" when missing or empty) and data.get("stop").
EngineLine(content, stop) == [content |-> content, stop |-> stop]
EngineLineKinds == {EngineLine(c, b) : c \in {"", "x", "y"}, b \in BOOLEAN}

\* What llm_engine.health() reports when the request arrives; "unavailable"
\* stands for llm_engine being None.
EngineHealth == {"ready", "not_ready", "unreachable", "unavailable"}

otherThanQueue == << kernelAll, clientVars, authVars, stopVars >>

\* run_endpoint up to the first resumption of stream_tokens: 503 unless the
\* engine is ready; otherwise the queue is created and infer is handed to the
\* executor.
RunRequest(health) ==
  /\ handlerPc = "idle"
  /\ IF health # "ready"
     THEN /\ handlerPc' = "rejected"
          /\ UNCHANGED workerPc
     ELSE /\ handlerPc' = "awaiting_infer"
          /\ workerPc' = "running"
  /\ UNCHANGED << engineLines, scheduled, token_queue, sseOut, emitted, otherThanQueue >>

\* LlamaBinaryEngine.infer reads one line: stream_cb(content) for a non-empty
\* content, which hands token_queue.put(content) to the event loop; return on stop.
InferLine ==
  /\ workerPc = "running"
  /\ engineLines # << >>
  /\ LET line == Head(engineLines)
     IN /\ IF line.content # ""
           THEN /\ scheduled' = Append(scheduled, line.content)
                /\ emitted' = Append(emitted, line.content)
           ELSE UNCHANGED << scheduled, emitted >>
        /\ workerPc' = IF line.stop THEN "returned" ELSE "running"
  /\ engineLines' = Tail(engineLines)
  /\ UNCHANGED << token_queue, sseOut, handlerPc, otherThanQueue >>

\* The response has no more lines: infer returns.
InferEnd ==
  /\ workerPc = "running"
  /\ engineLines = << >>
  /\ workerPc' = "returned"
  /\ UNCHANGED << engineLines, scheduled, token_queue, sseOut, emitted, handlerPc,
                  otherThanQueue >>

\* The request to the engine fails (connection, HTTP status, anything else):
\* infer raises RuntimeError.
InferFails ==
  /\ workerPc = "running"
  /\ workerPc' = "raised"
  /\ UNCHANGED << engineLines, scheduled, token_queue, sseOut, emitted, handlerPc,
                  otherThanQueue >>

\* The event loop runs the oldest token_queue.put it was handed.
LoopRunsPut ==
  /\ scheduled # << >>
  /\ token_queue' = Append(token_queue, Head(scheduled))
  /\ scheduled' = Tail(scheduled)
  /\ UNCHANGED << engineLines, sseOut, emitted, workerPc, handlerPc, otherThanQueue >>

SseRecord(content, stop) == [content |-> content, stop |-> stop]
ErrorRecord == [content |-> "error", stop |-> TRUE]

\* stream_tokens resumes after run_in_executor: the error record and return
\* when infer raised, the while loop otherwise.
InferAwaited ==
  /\ handlerPc = "awaiting_infer"
  /\ workerPc \in {"returned", "raised"}
  /\ IF workerPc = "raised"
     THEN /\ sseOut' = Append(sseOut, ErrorRecord)
          /\ handlerPc' = "finished"
     ELSE /\ handlerPc' = "draining"
          /\ UNCHANGED sseOut
  /\ UNCHANGED << engineLines, scheduled, token_queue, emitted, workerPc, otherThanQueue >>

\* One pass of the while loop: token = await token_queue.get() returns when
\* the queue holds an item; None ends the loop and the stop record is sent.
QueueGet ==
  /\ handlerPc = "draining"
  /\ token_queue # << >>
  /\ IF Head(token_queue) = "None"
     THEN /\ sseOut' = Append(sseOut, SseRecord("", TRUE))
          /\ handlerPc' = "finished"
     ELSE /\ sseOut' = Append(sseOut, SseRecord(Head(token_queue), FALSE))
          /\ UNCHANGED handlerPc
  /\ token_queue' = Tail(token_queue)
  /\ UNCHANGED << engineLines, scheduled, emitted, workerPc, otherThanQueue >>

QueueNext ==
  \/ \E h \in EngineHealth : RunRequest(h)
  \/ InferLine
  \/ InferEnd
  \/ InferFails
  \/ LoopRunsPut
  \/ InferAwaited
  \/ QueueGet

QueueInit ==
  /\ \E n \in 0..MaxEngineLines : engineLines \in [1..n -> EngineLineKinds]
  /\ scheduled = << >>
  /\ token_queue = << >>
  /\ sseOut = << >>
  /\ emitted = << >>
  /\ workerPc = "idle"
  /\ handlerPc = "idle"

SpecQueueInit == KernelIdle /\ ClientIdle /\ AuthIdle /\ StopIdle /\ QueueInit

\* One /run request of runtime/server.py; the executor thread and the event
\* loop both keep running, so a step that can be taken is taken.
SpecQueue == SpecQueueInit /\ [][QueueNext]_vars /\ WF_vars(QueueNext)

\* ------------------------------- start_runtime, stop_runtime (cli/core.py)
otherThanDaemon == << kernelAll, clientVars, queueVars, daemonKind, serverToken, lastResponse >>
otherThanStop == << otherThanDaemon, daemonEngine, shutdownAsked >>
tokenUse == << tokenFile, clientToken, lastOp >>

Running(p) == p \in Pids /\ daemons[p] # "none"
daemonAlive == \E p \in Pids : Running(p)

\* The process bound to the port, 0 when there is none.
Server == IF \E p \in Pids : daemons[p] = "serving"
          THEN CHOOSE p \in Pids : daemons[p] = "serving" ELSE 0

\* Process 1 was started by hand or by cli/commands/start.py; start_runtime
\* spawns imrabo.adapters.http.fastapi_server.
KindOf(p) == IF p = 1 THEN daemonKind ELSE "adapter"

\* The status of a request with the header "Bearer <token of the client>":
\* the verify_token dependency of the module the serving process runs.
BearerStatus ==
  IF KindOf(Server) = "adapter"
  THEN verify_token_adapter("Bearer", clientToken)
  ELSE verify_token_runtime("Bearer", clientToken)

ShutdownStatus == BearerStatus

\* is_runtime_active: GET /health answered with a dict that has "status";
\* any exception (connection refused, raise_for_status) gives False.
is_runtime_active == Server # 0 /\ BearerStatus = 200

\* How client.shutdown() ends: the daemon answers 200 after sending itself
\* SIGTERM; it answers with an error status (raise_for_status raises); it
\* handles the request but the answer does not arrive within the timeout;
\* nothing listens on the port.
ShutdownOutcomes ==
  IF Server = 0 THEN {"unreachable"}
  ELSE IF ShutdownStatus = 200 THEN {"ok", "lost_response"}
  ELSE {"http_error"}

\* How os.kill(pid, SIGTERM) ends for the pid of the record: delivered to
\* the process, ProcessLookupError, or PermissionError (the pid now belongs to
\* a process of another user).
KillOutcomes ==
  IF Running(pidRead.pid) THEN {"delivered"} ELSE {"no_process", "denied"}

Return(result) ==
  /\ stopResult' = result
  /\ stopPc' = "done"

NoCallRunning == stopPc \in {"idle", "done"} /\ startPc \in {"idle", "done"}

\* client = RuntimeClient() at the head of start_runtime and stop_runtime
ClientConstructed ==
  /\ \E t \in FreshTokens :
       /\ tokenFile' = LoadOrGenerate(tokenFile, t).file
       /\ clientToken' = LoadOrGenerate(tokenFile, t).token
  /\ lastOp' = "RuntimeClient"

\* stop_runtime is called: client = RuntimeClient()
StopBegin ==
  /\ NoCallRunning
  /\ stopCalls < MaxStops
  /\ ClientConstructed
  /\ stopPc' = "shutdown_call"
  /\ stopResult' = "none"
  /\ signals' = << >>
  /\ pidRead' = Content("none")
  /\ stopCalls' = stopCalls + 1
  /\ UNCHANGED << procVars, nextPid, pidFile, startCall, otherThanStop >>

\* lines 289-296: run_async(client.shutdown()), then remove_pid_file() and
\* return True, or the except branch
ShutdownCall(outcome) ==
  /\ stopPc = "shutdown_call"
  /\ outcome \in ShutdownOutcomes
  /\ termPending' = IF outcome \in {"ok", "lost_response"}
                    THEN termPending \cup {Server} ELSE termPending
  /\ shutdownAsked' = IF outcome \in {"ok", "lost_response"}
                      THEN shutdownAsked \cup {Server} ELSE shutdownAsked
  /\ IF outcome = "ok"
     THEN /\ pidFile' = Content("absent")
          /\ Return("success")
     ELSE /\ stopPc' = "read_pid"
          /\ UNCHANGED << pidFile, stopResult >>
  /\ UNCHANGED << daemons, nextPid, pidRead, signals, stopCalls, startCall, tokenUse,
                  daemonEngine, otherThanDaemon >>

\* The mutant of ReadPid: an unreadable record is left on disk.
ReadPid_KeepsCorrupt ==
  /\ stopPc = "read_pid"
  /\ pidRead' = pidFile
  /\ CASE pidFile.content \in {"absent", "corrupt", "zero"} ->
            /\ Return("success")
            /\ UNCHANGED pidFile
       [] OTHER ->
            /\ stopPc' = "sigterm"
            /\ UNCHANGED << pidFile, stopResult >>
  /\ UNCHANGED << procVars, nextPid, signals, stopCalls, startCall, tokenUse, otherThanStop >>

\* lines 298-301 with get_saved_pid: no record or an unreadable one (which is
\* deleted) means not running; so does a record that holds 0 (not pid)
ReadPid ==
  /\ stopPc = "read_pid"
  /\ pidRead' = pidFile
  /\ CASE pidFile.content \in {"absent", "corrupt"} ->
            /\ pidFile' = Content("absent")
            /\ Return("success")
       [] pidFile.content = "zero" ->
            /\ Return("success")
            /\ UNCHANGED pidFile
       [] OTHER ->
            /\ stopPc' = "sigterm"
            /\ UNCHANGED << pidFile, stopResult >>
  /\ UNCHANGED << procVars, nextPid, signals, stopCalls, startCall, tokenUse, otherThanStop >>

\* lines 303-306 and the handlers of 313-319: os.kill(pid, SIGTERM), then
\* time.sleep(2) begins
SendTerm(outcome) ==
  /\ stopPc = "sigterm"
  /\ outcome \in KillOutcomes
  /\ signals' = Append(signals, "SIGTERM")
  /\ CASE outcome = "delivered" ->
            /\ termPending' = termPending \cup {pidRead.pid}
            /\ stopPc' = "sleeping"
            /\ UNCHANGED << pidFile, stopResult >>
       [] outcome = "no_process" ->
            /\ pidFile' = Content("absent")
            /\ Return("success")
            /\ UNCHANGED termPending
       [] outcome = "denied" ->
            /\ pidFile' = Content("absent")
            /\ Return("failure")
            /\ UNCHANGED termPending
  /\ UNCHANGED << daemons, nextPid, pidRead, stopCalls, startCall, tokenUse, otherThanStop >>

\* lines 308-321: after the sleep, os.kill(pid, 0); SIGKILL when the process
\* is still there; the record is removed in any case
ProbeAndKill ==
  /\ stopPc = "sleeping"
  /\ signals' = IF Running(pidRead.pid) THEN signals \o << "0", "SIGKILL" >>
                ELSE Append(signals, "0")
  /\ daemons' = [p \in Pids |-> IF p = pidRead.pid THEN "none" ELSE daemons[p]]
  /\ termPending' = termPending \ {pidRead.pid}
  /\ pidFile' = Content("absent")
  /\ Return("success")
  /\ UNCHANGED << nextPid, pidRead, stopCalls, startCall, tokenUse, otherThanStop >>

\* A process that has received SIGTERM exits: uvicorn's graceful shutdown has
\* come to its end, and with it on_shutdown of runtime/server.py (lines
\* 278-286), which unloads llm_engine.
DaemonExits(p) ==
  /\ Running(p)
  /\ p \in termPending
  /\ daemons' = [daemons EXCEPT ![p] = "none"]
  /\ termPending' = termPending \ {p}
  /\ daemonEngine' = daemonEngine \ {p}
  /\ UNCHANGED << nextPid, pidFile, stopCall, startCall, tokenUse, shutdownAsked,
                  otherThanDaemon >>

StopNext ==
  \/ StopBegin
  \/ \E o \in {"ok", "http_error", "lost_response", "unreachable"} : ShutdownCall(o)
  \/ ReadPid
  \/ \E o \in {"delivered", "no_process", "denied"} : SendTerm(o)
  \/ ProbeAndKill
  \/ \E p \in Pids : DaemonExits(p)

\* Process 1 may run, with any PID record on disk.
StopInit ==
  /\ daemonKind \in {"adapter", "runtime"}
  /\ \E st \in {"none", "serving"} : daemons = [p \in Pids |-> IF p = 1 THEN st ELSE "none"]
  /\ termPending = {}
  /\ nextPid = 2
  /\ pidFile \in {Content("absent"), Content("corrupt"), Content("zero"), Content("stale"),
                  PidRecord(1)}
  /\ pidRead = Content("none")
  /\ stopPc = "idle"
  /\ stopResult = "none"
  /\ signals = << >>
  /\ stopCalls = 0
  /\ startPc = "idle"
  /\ startResult = "none"
  /\ polls = 0
  /\ spawnedPid = 0
  /\ daemonEngine \in (IF daemonKind = "runtime" /\ daemons[1] = "serving"
                      THEN {{}, {1}} ELSE {{}})
  /\ shutdownAsked = {}

\* The daemon read its token when its module was imported; the file may have
\* been lost or replaced since.
StopAuthInit ==
  /\ tokenFile \in {"absent", "t1"}
  /\ serverToken \in {"t1", "t2"}
  /\ clientToken = "unset"
  /\ lastResponse = [server |-> "none", endpoint |-> "none", scheme |-> "none",
                     token |-> "none", secret |-> "none", status |-> 0, handled |-> FALSE]
  /\ lastOp = "none"

SpecStopInit == KernelIdle /\ ClientIdle /\ QueueIdle /\ StopAuthInit /\ StopInit

\* stop_runtime called any number of times, with or without a daemon and
\* with any PID record.
SpecStop == SpecStopInit /\ [][StopNext]_vars

\* ------------------------------------------------------------ start_runtime
\* start_runtime is called: client = RuntimeClient()
StartBegin ==
  /\ NoCallRunning
  /\ ClientConstructed
  /\ startPc' = "check"
  /\ startResult' = "none"
  /\ polls' = 0
  /\ spawnedPid' = 0
  /\ stopCalls' = 0
  /\ UNCHANGED << procVars, nextPid, pidFile, pidRead, stopPc, stopResult, signals,
                  otherThanStop >>

\* lines 238-241: if is_runtime_active(client): return True
StartCheck ==
  /\ startPc = "check"
  /\ IF is_runtime_active
     THEN /\ startPc' = "done"
          /\ startResult' = "success"
     ELSE /\ startPc' = "spawn"
          /\ UNCHANGED startResult
  /\ UNCHANGED << procVars, nextPid, pidFile, polls, spawnedPid, stopCall, tokenUse,
                  otherThanStop >>

\* lines 251-260: subprocess.Popen(command) and save_pid(process.pid); Popen
\* raising (fork or exec fails) goes to the except branch of line 273
Spawn(ok) ==
  /\ startPc = "spawn"
  /\ nextPid \in Pids
  /\ IF ok
     THEN /\ daemons' = [daemons EXCEPT ![nextPid] = "starting"]
          /\ spawnedPid' = nextPid
          /\ nextPid' = nextPid + 1
          /\ pidFile' = PidRecord(nextPid)
          /\ startPc' = "polling"
          /\ UNCHANGED startResult
     ELSE /\ startPc' = "done"
          /\ startResult' = "failure"
          /\ UNCHANGED << daemons, spawnedPid, nextPid, pidFile >>
  /\ UNCHANGED << termPending, polls, stopCall, tokenUse, otherThanStop >>

\* lines 263-267: one iteration of the polling loop
Poll ==
  /\ startPc = "polling"
  /\ polls < MaxPolls
  /\ IF is_runtime_active
     THEN /\ startPc' = "done"
          /\ startResult' = "success"
          /\ UNCHANGED polls
     ELSE /\ polls' = polls + 1
          /\ UNCHANGED << startPc, startResult >>
  /\ UNCHANGED << procVars, nextPid, pidFile, spawnedPid, stopCall, tokenUse, otherThanStop >>

\* The mutant of PollTimeout: the record is removed when the loop is exhausted.
PollTimeout_RemovesRecord ==
  /\ startPc = "polling"
  /\ polls = MaxPolls
  /\ startPc' = "done"
  /\ startResult' = "failure"
  /\ pidFile' = Content("absent")
  /\ UNCHANGED << procVars, nextPid, polls, spawnedPid, stopCall, tokenUse, otherThanStop >>

\* lines 269-270: the loop is exhausted
PollTimeout ==
  /\ startPc = "polling"
  /\ polls = MaxPolls
  /\ startPc' = "done"
  /\ startResult' = "failure"
  /\ UNCHANGED << procVars, nextPid, pidFile, polls, spawnedPid, stopCall, tokenUse,
                  otherThanStop >>

\* uvicorn.run in a spawned process: it binds the port when the port is free
DaemonBinds(p) ==
  /\ Running(p)
  /\ daemons[p] = "starting"
  /\ Server = 0
  /\ daemons' = [daemons EXCEPT ![p] = "serving"]
  /\ UNCHANGED << termPending, nextPid, pidFile, stopCall, startCall, tokenUse, otherThanStop >>

\* ... and exits with an error when another process holds the port
DaemonBindFails(p) ==
  /\ Running(p)
  /\ daemons[p] = "starting"
  /\ Server # 0
  /\ daemons' = [daemons EXCEPT ![p] = "none"]
  /\ termPending' = termPending \ {p}
  /\ UNCHANGED << nextPid, pidFile, stopCall, startCall, tokenUse, otherThanStop >>

StartNext ==
  \/ StartBegin
  \/ StartCheck
  \/ \E ok \in BOOLEAN : Spawn(ok)
  \/ Poll
  \/ PollTimeout
  \/ \E p \in Pids : DaemonBinds(p)
  \/ \E p \in Pids : DaemonBindFails(p)

\* start_runtime and stop_runtime called one after the other in any order.
SpecDaemon == SpecStopInit /\ [][StartNext \/ StopNext]_vars

\* ------------------------- direct calls on LlamaCppProcessAdapter (process.py)
otherThanAdapter == << files, kernelVars, pc, req, stream, calls, resolved, execRef, peers,
                       pred, lastFinished, storeLast, clientVars, authVars, queueVars,
                       stopVars, lastUnload, unloadedUnder >>

\* The handles load() is called with: available, located at the first .gguf
\* file of the artifact (whatever is at that path by now).
AdapterHandles ==
  {Handle(ref, TRUE, MainGguf(_get_model_config(ref))) :
     ref \in {r \in RequestRefs : /\ _get_model_config(r) # NoConfig
                                  /\ MainGguf(_get_model_config(r)) # NoPath}}

\* llama-server cannot serve a model file that is not there: it exits.
LoadOutcomesFor(h) ==
  IF files[h.location] = "absent" THEN {"no_binary", "popen_fails", "exits"}
  ELSE ProbeOutcomes

NoGenerator == genPc \in {"idle", "returned", "raised", "not_ready"}

\* adapter.load(h)
AdapterLoad(h, outcome) ==
  /\ NoGenerator
  /\ Len(procs) < MaxLoads
  /\ outcome \in LoadOutcomesFor(h)
  /\ LET l == load(h, outcome)
     IN /\ model_path' = l.model_path
        /\ process' = l.process
        /\ server_ready' = l.server_ready
        /\ procs' = l.procs
        /\ adapterCall' = [op |-> "load", raised |-> l.raised, outcome |-> outcome,
                           present |-> files[h.location] # "absent",
                           spawned |-> IF Len(l.procs) > Len(procs) THEN Len(l.procs) ELSE 0,
                           before |-> process]
  /\ UNCHANGED << generator, otherThanAdapter >>

\* adapter.unload()
AdapterUnload ==
  /\ NoGenerator
  /\ LET u == unload(process, server_ready, procs)
     IN /\ process' = u.process
        /\ server_ready' = u.server_ready
        /\ procs' = u.procs
  /\ adapterCall' = [op |-> "unload", raised |-> "", outcome |-> "", present |-> FALSE,
                     spawned |-> 0, before |-> process]
  /\ UNCHANGED << model_path, generator, otherThanAdapter >>

\* A llama-server process exits by itself (it crashes or is killed from outside).
EngineExits(i) ==
  /\ i \in DOMAIN procs
  /\ procs[i].alive
  /\ procs' = [procs EXCEPT ![i].alive = FALSE]
  /\ UNCHANGED << model_path, process, server_ready, adapterDirect, otherThanAdapter >>

\* The response of llama-server to POST /completion is a sequence of lines.
\* A line is modelled as a sequence of bytes in which the framing is kept as
\* units: "data:{" opens a JSON object, "}" closes one with stop false and
\* "}stop" one with stop true, "\n" ends the line; between them are the
\* UTF-8 bytes of the content (the server writes JSON without escaping
\* non-ASCII characters).
EngineChars == {"a", "é", "kha"}
\* The contents one data line carries: nothing, a Latin letter, a Latin
\* letter with an accent (U+00E9), the Cyrillic letter kha (U+0445).
EngineTexts == {<< >>, <<"a">>, <<"é">>, <<"kha">>}

DataLine(content, stop) == [kind |-> "data", content |-> content, stop |-> stop]
\* An empty line, an SSE comment, a data line whose JSON is cut short, and a
\* data line whose JSON is a number.
BlankLine == [kind |-> "blank", content |-> << >>, stop |-> FALSE]
PingLine == [kind |-> "comment", content |-> << >>, stop |-> FALSE]
BadJsonLine == [kind |-> "bad_json", content |-> << >>, stop |-> FALSE]
NumberLine == [kind |-> "number", content |-> << >>, stop |-> FALSE]
EngineBodyLines ==
  {DataLine(t, b) : t \in EngineTexts, b \in BOOLEAN}
    \cup {BlankLine, PingLine, BadJsonLine, NumberLine}

RECURSIVE BodiesUpTo(_)
BodiesUpTo(n) ==
  IF n = 0 THEN {<< >>}
  ELSE LET shorter == BodiesUpTo(n - 1)
       IN shorter \cup {Append(b, l) : b \in {c \in shorter : Len(c) = n - 1},
                                       l \in EngineBodyLines}
EngineBodies == BodiesUpTo(MaxBody)
\* The three courses a well-formed response takes: it ends at once, it
\* brings a data line and ends, it brings a data line with stop.
PlainBodies == {<< >>, <<DataLine(<<"a">>, FALSE)>>, <<DataLine(<<"a">>, TRUE)>>}

RECURSIVE EngineUtf8(_)
\* the bytes of a text in UTF-8: "é" is C3 A9, kha is D1 85
EngineUtf8(text) ==
  IF text = << >> THEN << >>
  ELSE (CASE Head(text) = "é" -> <<"C3", "A9">>
          [] Head(text) = "kha" -> <<"D1", "85">>
          [] OTHER -> <<Head(text)>>) \o EngineUtf8(Tail(text))

\* The bytes of one line of the engine's response.
EngineEncode(line) ==
  CASE line.kind = "blank" -> <<"\n">>
    [] line.kind = "comment" -> <<":", "\n">>
    [] line.kind = "bad_json" -> <<"data:{", "\n">>
    [] line.kind = "number" -> <<"data:5", "\n">>
    [] OTHER -> <<"data:{">> \o EngineUtf8(line.content)
                  \o <<IF line.stop THEN "}stop" ELSE "}">> \o <<"\n">>

RECURSIVE EngineWire(_)
EngineWire(ls) == IF ls = << >> THEN << >> ELSE EngineEncode(Head(ls)) \o EngineWire(Tail(ls))

\* requests decodes a text/event-stream body that names no charset as
\* ISO-8859-1 (Response.encoding from get_encoding_from_headers): every byte
\* becomes the character with that code; byte 85 becomes U+0085 (NEL).
Latin1(byte) ==
  CASE byte = "C3" -> "Ã"
    [] byte = "A9" -> "©"
    [] byte = "D1" -> "Ñ"
    [] byte = "85" -> "NEL"
    [] OTHER -> byte

\* The characters a JSON string of a line can hold after that decoding.
DecodedChars == {"a", "Ã", "©", "Ñ"}

RECURSIVE Splitlines(_)
\* str.splitlines() as response.iter_lines(decode_unicode=True) applies it to
\* the decoded text: a line ends at "\n" and at U+0085 alike.
Splitlines(text) ==
  IF text = << >> THEN << >>
  ELSE LET ends == {i \in DOMAIN text : text[i] \in {"\n", "NEL"}}
       IN IF ends = {} THEN <<text>>
          ELSE LET i == CHOOSE k \in ends : \A j \in ends : k <= j
               IN <<SubSeq(text, 1, i - 1)>> \o Splitlines(SubSeq(text, i + 1, Len(text)))

\* line 291: the lines response.iter_lines(decode_unicode=True) gives out
iter_lines(body) ==
  LET bytes == EngineWire(body)
  IN Splitlines([i \in DOMAIN bytes |-> Latin1(bytes[i])])

\* lines 292-310 on one line of text: "skip" for a line that is empty, does
\* not start with data: or raises JSONDecodeError; "raised" for JSON that has
\* no .get (AttributeError, not caught); "streaming" for a JSON object.
ParseEngineLine(line) ==
  IF line = << >> \/ Head(line) \notin {"data:{", "data:5"}
  THEN [kind |-> "skip", content |-> << >>, stop |-> FALSE]
  ELSE IF line = <<"data:5">>
  THEN [kind |-> "raised", content |-> << >>, stop |-> FALSE]
  ELSE IF /\ Head(line) = "data:{"
          /\ Len(line) >= 2
          /\ line[Len(line)] \in {"}", "}stop"}
          /\ \A i \in 2..(Len(line) - 1) : line[i] \in DecodedChars
  THEN [kind |-> "streaming", content |-> SubSeq(line, 2, Len(line) - 1),
        stop |-> line[Len(line)] = "}stop"]
  ELSE [kind |-> "skip", content |-> << >>, stop |-> FALSE]

RECURSIVE NextYield(_)
\* The for loop of line 291 from one resumption on: the lines are read until
\* one gives a result ("streaming"), one raises ("raised") or none is left
\* ("end"); rest is what is still unread then.
NextYield(lines) ==
  IF lines = << >> THEN [kind |-> "end", content |-> << >>, stop |-> FALSE, rest |-> << >>]
  ELSE LET p == ParseEngineLine(Head(lines))
       IN IF p.kind = "skip" THEN NextYield(Tail(lines))
          ELSE [kind |-> p.kind, content |-> p.content, stop |-> p.stop, rest |-> Tail(lines)]

\* What happens at one resumption of execute() inside its try block: the
\* lines of the response are read ("read"), or requests raises
\* ConnectionError, HTTPError (from raise_for_status), Timeout or
\* ChunkedEncodingError (the connection breaks while the body is read).
GenOutcomes == {"read", "ConnectionError", "HTTPError", "Timeout", "ChunkedEncodingError"}
\* line 312: except (ConnectionError, HTTPError, requests.Timeout)
Caught == {"ConnectionError", "HTTPError", "Timeout"}
TransportFailures == Caught \cup {"ChunkedEncodingError"}

Output(content, stop) == [content |-> content, stop |-> stop]

Streamed(out) == Cardinality({i \in DOMAIN out : out[i] = "streaming"})

\* lines 288-328 from one resumption to the next yield, return or raise; out
\* and results are what the generator has yielded so far, lines what
\* iter_lines still holds
GenResume(out, results, lines, outcome) ==
  CASE outcome = "read" ->
         LET y == NextYield(lines)
         IN /\ genBody' = y.rest
            /\ genFailure' = "none"
            /\ IF y.kind = "streaming"
               THEN /\ genOut' = Append(out, "streaming")
                    /\ genResults' = Append(results, Output(y.content, y.stop))
                    /\ genPc' = IF y.stop THEN "stopped" ELSE "streaming"
               ELSE IF y.kind = "end"
               THEN /\ genOut' = Append(out, "completed")
                    /\ genResults' = results
                    /\ genPc' = "completed"
               ELSE /\ genOut' = out
                    /\ genResults' = results
                    /\ genPc' = "raised"
    [] outcome \in Caught ->
         /\ genOut' = Append(out, "error")
         /\ genPc' = "errored"
         /\ genFailure' = outcome
         /\ genBody' = lines
         /\ genResults' = results
    [] outcome = "ChunkedEncodingError" ->
         /\ genOut' = out
         /\ genPc' = "raised"
         /\ genFailure' = outcome
         /\ genBody' = lines
         /\ genResults' = results

\* execute(request) is called and iterated up to its first yield: the guard
\* of lines 277-278 raises ("not_ready") before any request is made; else the
\* engine answers the request with body
ExecuteCall(body, outcome) ==
  /\ NoGenerator
  /\ IF ~server_ready
     THEN /\ genPc' = "not_ready"
          /\ genOut' = << >>
          /\ genFailure' = "none"
          /\ genSent' = << >>
          /\ genBody' = << >>
          /\ genResults' = << >>
     ELSE /\ genSent' = body
          /\ GenResume(<< >>, << >>, iter_lines(body), outcome)
  /\ UNCHANGED << adapterVars, adapterCall, otherThanAdapter >>

\* the caller asks the generator for its next item
GenNext(outcome) ==
  /\ CASE genPc = "streaming" ->
            /\ outcome # "HTTPError"
            /\ GenResume(genOut, genResults, genBody, outcome)
       [] genPc = "stopped" ->
            /\ outcome = "read"
            /\ genOut' = Append(genOut, "completed")
            /\ genPc' = "completed"
            /\ UNCHANGED << genFailure, genBody, genResults >>
       [] genPc \in {"completed", "errored"} ->
            /\ outcome = "read"
            /\ genPc' = "returned"
            /\ UNCHANGED << genOut, genFailure, genBody, genResults >>
       [] OTHER -> FALSE
  /\ UNCHANGED << genSent, adapterVars, adapterCall, otherThanAdapter >>

AdapterNext ==
  \/ \E h \in AdapterHandles, o \in ProbeOutcomes : AdapterLoad(h, o)
  \/ AdapterUnload
  \/ \E i \in 1..MaxLoads : EngineExits(i)
  \/ \E body \in PlainBodies, o \in GenOutcomes : ExecuteCall(body, o)
  \/ \E o \in GenOutcomes : GenNext(o)

\* load, unload and execute called on one adapter, on any uniform file store.
SpecAdapter == Init /\ [][AdapterNext]_vars

\* The adapter after a load() that succeeded on a fresh adapter.
ReadyInit ==
  /\ files \in {fs \in UniformStores : \A f \in AllFiles : fs[f] = "good"}
  /\ storeLast = NoCall
  /\ current_handle = NoHandle
  /\ is_engine_loaded = FALSE
  /\ loaded_artifact_ref = NoRef
  /\ \E h \in AdapterHandles :
        /\ model_path = h.location
        /\ process = 1
        /\ server_ready = TRUE
        /\ procs = <<[ref |-> h.ref, path |-> h.location, alive |-> TRUE, serves |-> TRUE]>>
        /\ adapterCall = [op |-> "load", raised |-> "", outcome |-> "ready", present |-> TRUE,
                          spawned |-> 1, before |-> 0]
  /\ pc = [r \in Requests |-> "new"]
  /\ req = [r \in Requests |-> NoRef]
  /\ stream = [r \in Requests |-> << >>]
  /\ calls = [r \in Requests |-> << >>]
  /\ resolved = [r \in Requests |-> "pending"]
  /\ execRef = [r \in Requests |-> NoRef]
  /\ peers = [r \in Requests |-> {}]
  /\ pred = [r \in Requests |-> 0]
  /\ lastFinished = 0
  /\ ClientIdle /\ AuthIdle /\ QueueIdle /\ StopIdle
  /\ lastUnload = NoUnload
  /\ unloadedUnder = [r \in Requests |-> ""]
  /\ genPc = "idle"
  /\ genOut = << >>
  /\ genFailure = "none"
  /\ genSent = << >>
  /\ genBody = << >>
  /\ genResults = << >>

ExecuteNext ==
  \/ genPc = "idle" /\ \E body \in EngineBodies, o \in GenOutcomes : ExecuteCall(body, o)
  \/ \E o \in GenOutcomes : GenNext(o)

\* execute() called once on a ready adapter, the engine answering with any body.
SpecExecute == ReadyInit /\ [][ExecuteNext]_vars

\* ------------------------------------------------------------ properties
Statuses(r) == [i \in DOMAIN stream[r] |-> stream[r][i].status]
IsTerminal(x) == x.status \in {"completed", "error"}
Terminals(r) == {i \in DOMAIN stream[r] : IsTerminal(stream[r][i])}
LastOf(q) == q[Len(q)]
HasCall(r, what) == \E i \in DOMAIN calls[r] : calls[r][i] = what
CallCount(r, what) == Cardinality({i \in DOMAIN calls[r] : calls[r][i] = what})
\* The request ran to its end without any error result.
Success(r) ==
  /\ pc[r] = "done"
  /\ LastOf(stream[r]).status = "completed"
  /\ Count(r, "error") = 0
\* r started right after q ended, and nothing else ran on the kernel during either.
Consecutive(q, r) ==
  /\ q \in Requests
  /\ pred[r] = q
  /\ peers[q] = {}
  /\ peers[r] = {}

\* C1: every finished result stream holds exactly one terminal result
\* (completed or error), and that result is its last item.
C1_ExactlyOneTerminal ==
  \A r \in Requests :
    pc[r] = "done" => /\ Cardinality(Terminals(r)) = 1
                      /\ IsTerminal(LastOf(stream[r]))

Rank(status) ==
  CASE status = "resolving" -> 0
    [] status = "loading_engine" -> 1
    [] status = "executing" -> 2
    [] status = "streaming" -> 3
    [] status \in {"completed", "error"} -> 4

\* C2: in every result stream (and every prefix of it) the first result is
\* resolving, no result of an earlier stage follows one of a later stage,
\* resolving, loading_engine and executing occur at most once, and streaming
\* and completed results occur only after executing.
C2_StageOrder ==
  \A r \in Requests :
    /\ stream[r] # << >> => stream[r][1].status = "resolving"
    /\ \A i, j \in DOMAIN stream[r] :
         i < j => /\ Rank(stream[r][i].status) <= Rank(stream[r][j].status)
                  /\ Rank(stream[r][i].status) = Rank(stream[r][j].status)
                       => Rank(stream[r][i].status) >= 3
    /\ \A j \in DOMAIN stream[r] :
         stream[r][j].status \in {"streaming", "completed"}
           => \E i \in 1..(j - 1) : stream[r][i].status = "executing"

\* A finished stream with every stage in it.
C2_Witness ==
  \E r \in Requests :
    /\ pc[r] = "done"
    /\ Statuses(r) = << "resolving", "loading_engine", "executing", "streaming",
                        "completed", "completed" >>

\* The messages of the exceptions each step of execute can raise.
FailureMessages(step) ==
  CASE step = "ensure_available" ->
         {"Could not resolve config", "Failed to download and verify", "Artifact not available"}
    [] step = "load" ->
         {"AttributeError", "requires a Path location", "llama-server.exe not found",
          "Failed to start llama-server", "llama-server failed to become ready",
          "probe exception"}
    [] step = "execute" -> {"llama-server is not ready", "engine exception"}

\* The kernel has called the adapter's load() at least once.
LoadCalled == \E s \in Requests : HasCall(s, "load")

C4_NoUnloadIfNeverLoaded ==
  ~LoadCalled => \A r \in Requests : ~HasCall(r, "unload")

\* C5: of two consecutive successful requests with the same artifact_ref, the
\* second calls no load(), emits no loading_engine and has executing as its
\* second result; neither calls unload(); together they call load() at most
\* once, exactly once when the first is the kernel's first request; and the
\* engine is loaded with that artifact when the second has finished.
C5_Reuse ==
  \A q, r \in Requests :
    (Consecutive(q, r) /\ Success(q) /\ Success(r) /\ req[q] = req[r])
      => /\ CallCount(r, "load") = 0
         /\ CallCount(q, "load") <= 1
         /\ q = 1 => CallCount(q, "load") = 1
         /\ CallCount(q, "unload") = 0
         /\ CallCount(r, "unload") = 0
         /\ Count(r, "loading_engine") = 0
         /\ stream[r][2].status = "executing"
         /\ (lastFinished = r /\ ActiveSet = {})
              => /\ is_engine_loaded
                 /\ loaded_artifact_ref = req[r]
                 /\ server_ready
                 /\ EngineRef = req[r]

C5_Witness ==
  \E q, r \in Requests :
    /\ Consecutive(q, r) /\ Success(q) /\ Success(r) /\ req[q] = req[r]
    /\ CallCount(q, "load") = 1

IsLoadOrUnload(c) == c \in {"load", "unload"}

\* C6: a request that follows a successful request for another artifact, so
\* that it finds the engine loaded with that other artifact, has called
\* unload() once and then load() once by the time its load has succeeded.
C6_UnloadBeforeLoad ==
  \A q, r \in Requests :
    (Consecutive(q, r) /\ Success(q) /\ req[q] # req[r]
       /\ pc[r] = "executing" /\ HasCall(r, "load"))
      => SelectSeq(calls[r], IsLoadOrUnload) = << "unload", "load" >>

\* The calls made so far were made one after the other, none during another.
Sequential == \A r \in Requests : peers[r] = {}

\* C7: after any sequence of execute and unload_engine calls, at most one
\* engine process spawned by the adapter is alive.
C7_AtMostOneEngine == Sequential => Cardinality(Alive(procs)) <= 1

\* Every request that overlapped with r named another artifact than r, and
\* unload_engine was not called meanwhile.
OnlyOtherArtifacts(r) ==
  /\ peers[r] # {}
  /\ \A s \in peers[r] : s # 0 /\ req[s] # req[r]

\* C8: of requests in progress at once that target different artifacts, none
\* is executed on an engine loaded with another artifact than the one it
\* named, and none finds the engine it is about to use unloaded or replaced.
C8_Serialized ==
  \A r \in Requests :
    OnlyOtherArtifacts(r)
      => /\ execRef[r] # NoRef => execRef[r] = req[r]
         /\ pc[r] = "executing" => (is_engine_loaded /\ server_ready /\ EngineRef = req[r])

\* C9: a request whose ensure_available returned an unavailable handle has
\* the stream [resolving, error 'Artifact not available'] and the kernel calls
\* neither load() nor execute() for it.
C9_UnavailableNeverTouchesEngine ==
  \A r \in Requests :
    resolved[r] = "unavailable"
      => /\ stream[r] = << Result("resolving", ""), Result("error", "Artifact not available") >>
         /\ pc[r] \in {"error", "done"}
         /\ ~HasCall(r, "load")
         /\ ~HasCall(r, "execute")

C9_Witness ==
  \E r \in Requests : resolved[r] = "unavailable" /\ pc[r] = "done"

\* C10: after an ensure_available call, whether it returned or raised, no
\* declared file of the artifact is at its final path with a wrong SHA-256.
C10_ChecksumAtomicity ==
  storeLast.op = "ensure_available"
    => \A f \in Range(_get_model_config(storeLast.ref).files) : files[f] # "bad"

\* The file a handle of an available artifact points at: the first .gguf file,
\* or the first declared file when none is a .gguf (the weights.bin of the
\* design document's scenario).
PrimaryFile(config) ==
  IF MainGguf(config) # NoPath THEN MainGguf(config) ELSE config.files[1]

AllDeclaredValid(ref, fs) ==
  /\ _get_model_config(ref) # NoConfig
  /\ \A f \in Range(_get_model_config(ref).files) : fs[f] = "good"

\* C11: an ensure_available call that returns returns an available handle and
\* leaves every declared file of the artifact present with its declared
\* SHA-256; when one of the files was there with another hash before the call,
\* it has been replaced, and the handle's location is the primary model file.
C11_CorruptFileReplaced ==
  [][ (storeLast'.op = "ensure_available" /\ storeLast'.raised = "")
        => /\ storeLast'.handle.is_available => AllDeclaredValid(storeLast'.ref, files')
           /\ (\E f \in Range(_get_model_config(storeLast'.ref).files) : files[f] = "bad")
                => /\ storeLast'.handle.is_available
                   /\ storeLast'.handle.location
                        = PrimaryFile(_get_model_config(storeLast'.ref))
                   /\ AllDeclaredValid(storeLast'.ref, files') ]_vars

\* C12: a resolve call leaves the file store as it was, and its handle is
\* available only if every declared file of the artifact is present with its
\* declared SHA-256.
C12_ResolvePureAndStrict ==
  [][ storeLast'.op = "resolve"
        => /\ files' = files
           /\ storeLast'.handle.is_available
                => AllDeclaredValid(storeLast'.ref, files) ]_vars

\* ------------------------------------------- properties of run_prompt
RECURSIVE Concat(_)
Concat(ts) == IF ts = << >> THEN << >> ELSE Head(ts) \o Concat(Tail(ts))

ClientFinished == clientPc \in {"returned", "raised", "exhausted"}

\* The response body is a sequence of cumulative snapshots, each a
\* prefix-extension of the one before, followed by one stop record (which
\* carries no text, or the last snapshot once more, extended or not).
SnapshotsThenStop(ls) ==
  /\ \A i \in DOMAIN ls : ls[i].kind = "envelope" /\ (ls[i].stop <=> i = Len(ls))
  /\ \A i \in 2..(Len(ls) - 1) : IsPrefix(ls[i - 1].content, ls[i].content)
  /\ Len(ls) >= 2 =>
       \/ ls[Len(ls)].content = << >>
       \/ IsPrefix(ls[Len(ls) - 1].content, ls[Len(ls)].content)

FinalSnapshot(ls) ==
  IF ls[Len(ls)].content # << >> \/ Len(ls) = 1 THEN ls[Len(ls)].content
  ELSE ls[Len(ls) - 1].content

\* C13: when the response is a chain of cumulative snapshots followed by a stop
\* record, what run_prompt has yielded is always a prefix of the final
\* snapshot, and when run_prompt is over it has returned at the stop record
\* and the yielded deltas concatenated are the final snapshot.
C13_DeltaCorrectness ==
  (clientPc # "idle" /\ SnapshotsThenStop(sent))
    => /\ IsPrefix(Concat(deltas), FinalSnapshot(sent))
       /\ ClientFinished => /\ clientPc = "returned"
                            /\ Concat(deltas) = FinalSnapshot(sent)

\* What run_prompt does with the whole response body in a single chunk.
OneChunkRun == ProcessChunk(<< >>, << >>, << >>, << >>, Wire(sent))

\* C14: however the response body is cut into chunks, run_prompt yields the
\* deltas it yields for the body in one chunk, and ends the same way.
C14_ChunkingIndependence ==
  ClientFinished
    => /\ deltas = OneChunkRun.deltas
       /\ clientPc = (IF OneChunkRun.end = "" THEN "exhausted" ELSE OneChunkRun.end)

RECURSIVE DeltasAgainstPrevious(_, _)
\* The deltas of the design's rule over the decoded lines: each snapshot
\* against the snapshot decoded immediately before it (prev), the suffix when
\* it starts with prev and the whole snapshot otherwise; a line that is no
\* envelope is passed over.
DeltasAgainstPrevious(ps, prev) ==
  IF ps = << >> THEN << >>
  ELSE IF Head(ps).kind # "snapshot" THEN DeltasAgainstPrevious(Tail(ps), prev)
  ELSE LET full_text == Head(ps).content
           delta == IF IsPrefix(prev, full_text)
                    THEN SubSeq(full_text, Len(prev) + 1, Len(full_text))
                    ELSE full_text
       IN (IF delta = << >> THEN << >> ELSE <<delta>>)
            \o DeltasAgainstPrevious(Tail(ps), full_text)

\* C15: the deltas yielded are those of the snapshots run_prompt decoded, each
\* taken against the snapshot decoded immediately before it, and a decoded line
\* that is not the expected envelope does not end the stream.
C15_DeltaRule ==
  /\ deltas = DeltasAgainstPrevious(seen, << >>)
  /\ clientPc # "raised"

\* ------------------------------------------------- POST /run (fastapi_server)
\* result.output["stop"] of a kernel result: true in the engine's streaming
\* result for a stop line and in the engine's completed result; the kernel's
\* own results ({"message": ...}, {"error": ...}) have no stop key.
OutputStop(result) ==
  \/ result.status = "streaming" /\ result.msg = "stop"
  \/ result.status = "completed" /\ result.msg = "engine"

RECURSIVE stream_events(_, _)
\* The records stream_events sends for the results kernel.execute yields: one
\* per result, up to and including the first completed result; when
\* kernel.execute raises after these results, the error payload with stop true.
stream_events(results, raises) ==
  IF results = << >>
  THEN IF raises THEN << [status |-> "exception", stop |-> TRUE] >> ELSE << >>
  ELSE << [status |-> Head(results).status, stop |-> OutputStop(Head(results))] >>
         \o (IF Head(results).status = "completed" THEN << >>
             ELSE stream_events(Tail(results), raises))

\* The response of /run for request r is over: the kernel's generator has
\* ended, or stream_events has left its loop at a completed result.
ResponseOver(r) == pc[r] = "done" \/ Count(r, "completed") > 0

\* C16: when the response of /run is over, the last record sent carries
\* stop true.
C16_StopTerminated ==
  \A r \in Requests :
    ResponseOver(r) => LastOf(stream_events(stream[r], FALSE)).stop

\* ------------------------------------------------ properties of tokens and auth
\* C17: a request whose bearer token is the persisted secret is served; a
\* request without a token, or with a token that is not the secret, is
\* answered 401 and its endpoint function does not run.
C17_BearerRequired ==
  lastResponse.server # "none"
    => /\ (lastResponse.scheme = "Bearer" /\ lastResponse.token = lastResponse.secret)
            => (lastResponse.status = 200 /\ lastResponse.handled)
       /\ (lastResponse.scheme = "none" \/ lastResponse.token # lastResponse.secret)
            => (lastResponse.status = 401 /\ ~lastResponse.handled)

\* C18: only the bootstrap operation ensure_token puts a token into the
\* token file.
C18_TokenWrittenOnlyByBootstrap ==
  [][ (tokenFile' # tokenFile /\ tokenFile' \in Tokens) => lastOp' = "ensure_token" ]_vars

\* ------------------------------------- properties of /run of runtime/server.py
\* The records of the tokens ts, in order.
TokenRecords(ts) == [i \in DOMAIN ts |-> SseRecord(ts[i], FALSE)]

\* C19: once the inference call has returned, stream_tokens eventually has
\* sent one record per emitted token, in emission order, then the stop record,
\* and has finished.
C19_StreamTerminates ==
  (workerPc = "returned")
    ~> (/\ handlerPc = "finished"
        /\ sseOut = Append(TokenRecords(emitted), SseRecord("", TRUE)))

\* ------------------------------------------------ properties of stop_runtime
\* C20: when stop_runtime has returned success, the daemon process is not
\* alive.
C20_SuccessMeansStopped ==
  (stopPc = "done" /\ stopResult = "success") => ~daemonAlive

\* C21: from any state of the daemon and of the PID file, the first and the
\* second of two successive stop_runtime calls return success and leave no
\* PID record on disk.
C21_IdempotentStop ==
  (stopPc = "done" /\ stopCalls \in {1, 2}) =>
     (stopResult = "success" /\ pidFile = Content("absent"))

\* C22: when the cooperative shutdown call failed and the PID record is
\* missing or unparsable, stop_runtime returns success, has sent no signal,
\* and no record (in particular no corrupted one) is left on disk.
C22_NoPidMeansStopped ==
  (stopPc = "done" /\ pidRead.content \in {"absent", "corrupt"}) =>
     (stopResult = "success" /\ signals = << >> /\ pidFile = Content("absent"))

C22_Witness ==
  /\ stopPc = "done"
  /\ pidRead.content = "corrupt"
  /\ stopResult = "success"
  /\ pidFile = Content("absent")
  /\ daemonAlive

\* ----------------------------------------------- properties of start_runtime
\* C23: start_runtime called while a daemon is running and bound to the port
\* returns success without spawning a process and without changing the PID
\* record, so a start call never adds a second daemon process.
C23_StartIdempotent ==
  [][ (startPc = "check" /\ startPc' # "check" /\ Server # 0) =>
        /\ startPc' = "done"
        /\ startResult' = "success"
        /\ daemons' = daemons
        /\ pidFile' = pidFile ]_vars

\* C24: when start_runtime has returned failure after the polling loop was
\* exhausted, the PID record of the spawned process is on disk ...
C24_TimeoutKeepsRecord ==
  (startPc = "done" /\ startResult = "failure" /\ spawnedPid # 0 /\ stopCalls = 0) =>
     (polls = MaxPolls /\ pidFile = PidRecord(spawnedPid))

\* ... and when the stop_runtime call that follows has returned, that process
\* is not alive and the record is removed.
C24_StopAfterTimeout ==
  (startPc = "done" /\ startResult = "failure" /\ spawnedPid # 0
     /\ stopCalls = 1 /\ stopPc = "done") =>
     (~Running(spawnedPid) /\ pidFile = Content("absent"))

\* C24: a start_runtime call that exhausts its polling loop returns failure
\* with the PID record of the spawned process on disk, and the stop_runtime
\* call that follows terminates that process and removes the record.
C24_TimeoutThenStop == C24_TimeoutKeepsRecord /\ C24_StopAfterTimeout

C24_Witness ==
  /\ startPc = "done"
  /\ startResult = "failure"
  /\ spawnedPid # 0
  /\ stopCalls = 1
  /\ stopPc = "done"
  /\ stopResult = "success"
  /\ signals = << "SIGTERM", "0", "SIGKILL" >>
  /\ pidRead = PidRecord(spawnedPid)
  /\ pidFile = Content("absent")

\* C25: start_runtime never spawns next to a live daemon that the PID record
\* names: when Popen has run, the process the record named before is not alive
\* (it was probed with signal 0 and found gone, or it was stopped first).
C25_NoSpawnNextToRecorded ==
  [][ (startPc = "spawn" /\ startPc' = "polling") => ~Running(pidFile.pid) ]_vars

\* -------------------------------- properties of LlamaCppProcessAdapter
\* What the adapter looks like when nothing is loaded: no process handle (and
\* no pid, which is set and cleared with it) and not ready.
Unloaded == process = 0 /\ ~server_ready

\* C26: whenever load() has failed after it spawned the engine process,
\* whatever made the readiness probes fail, that process is not alive and the
\* adapter is unloaded.
C26_FailedLoadTornDown ==
  (adapterCall.op = "load" /\ adapterCall.raised # "" /\ adapterCall.spawned # 0) =>
     (Unloaded /\ ~procs[adapterCall.spawned].alive)

\* C27: when the request of execute() met a transport failure, at its start
\* or in the middle of the stream, the generator has not raised: it has
\* yielded exactly one error result, as its last item.
C27_TransportFailureIsErrorResult ==
  (genFailure \in TransportFailures) =>
     /\ genPc \in {"errored", "returned"}
     /\ Cardinality({i \in DOMAIN genOut : genOut[i] = "error"}) = 1
     /\ genOut[Len(genOut)] = "error"

\* C28: whenever unload() has returned, from whatever state it was called
\* in, the adapter is unloaded.
C28_UnloadAlwaysUnloads ==
  (adapterCall.op = "unload") => Unloaded

\* C29: load() called while the engine executable is absent or while the
\* model file at handle.location is absent raises a not-found error, has
\* spawned no process and leaves the process handle as it was.
C29_NotFoundErrors ==
  (adapterCall.op = "load" /\ (adapterCall.outcome = "no_binary" \/ ~adapterCall.present)) =>
     /\ adapterCall.raised \in {"llama-server.exe not found", "Model file not found"}
     /\ adapterCall.spawned = 0
     /\ process = adapterCall.before

\* ------------------------------------------------ properties of unload_engine
\* C30: unload_engine() called while the engine is loaded calls the adapter's
\* unload() once and leaves the kernel with nothing marked as loaded and no
\* artifact reference, so that any request that follows has to load; called
\* while nothing is loaded it calls unload() zero times and changes nothing.
C30_UnloadEngine ==
  [][ (lastUnload' # lastUnload \/ (is_engine_loaded /\ ~is_engine_loaded' /\ pc' = pc)) =>
        IF is_engine_loaded
        THEN /\ lastUnload'.unloads = 1
             /\ ~is_engine_loaded'
             /\ loaded_artifact_ref' = NoRef
             /\ current_handle' = NoHandle
             /\ \A h \in AdapterHandles : NeedsLoad(h)'
        ELSE /\ lastUnload'.unloads = 0
             /\ UNCHANGED << kernelVars, adapterVars, files, pc, stream, calls >> ]_vars

\* A request loaded the engine and succeeded, unload_engine was called, and a
\* later request for the same artifact, alone on the kernel, loaded again.
C30_Witness ==
  \E q, r \in Requests :
    /\ q < r /\ Success(q) /\ Success(r) /\ req[q] = req[r]
    /\ lastUnload.loaded /\ lastUnload.unloads = 1 /\ lastUnload.after = q
    /\ peers[r] = {} /\ pred[r] = 0
    /\ CallCount(q, "load") = 1 /\ CallCount(r, "load") = 1

\* ------------------------------------------- properties of execute (kernel)
\* C31: execute() on a kernel whose engine is not loaded errors immediately,
\* with no engine-load attempt: a request that has the kernel to itself and
\* finds the engine not loaded goes from its resolving result straight to an
\* error result, and makes no load() call.
C31_UnloadedKernelErrors ==
  [][ \A r \in Requests :
        (peers[r] = {} /\ ~is_engine_loaded) =>
           /\ (pc[r] = "resolving" /\ pc'[r] # pc[r]) =>
                 (pc'[r] = "error" /\ LastOf(stream'[r]).status = "error")
           /\ CallCount(r, "load")' = CallCount(r, "load") ]_vars

\* C32: between calls made one after another (execute and unload_engine in
\* any sequence), the kernel's record of the loaded artifact agrees with the
\* engine: while nothing is loaded (before the first successful load, after
\* every unload, explicit or error-triggered) loaded_artifact_ref is null;
\* while the engine is loaded it is the reference the engine process was last
\* successfully loaded with; and an artifact is never recorded as loaded
\* while the adapter is not ready with that artifact.
C32_LoadedRefAgrees ==
  (Sequential /\ ActiveSet = {}) =>
     /\ ~is_engine_loaded => loaded_artifact_ref = NoRef
     /\ is_engine_loaded => (loaded_artifact_ref # NoRef /\ loaded_artifact_ref = EngineRef)
     /\ loaded_artifact_ref # NoRef => (server_ready /\ EngineRef = loaded_artifact_ref)

\* The adapter was never loaded, its last load() started from nothing and
\* failed, or unload() was the last call made on it.
NotReadyByLifecycle ==
  \/ adapterCall.op = "none"
  \/ adapterCall.op = "load" /\ adapterCall.raised # "" /\ adapterCall.before = 0
  \/ adapterCall.op = "unload"

\* C33: execute() called on an adapter that is not ready (never loaded, load
\* failed, or unloaded) fails with the 'not ready' error and issues no
\* inference call to the engine.
C33_ExecuteOnlyWhenReady ==
  [][ (NotReadyByLifecycle /\ NoGenerator /\ genPc' # genPc) => genPc' = "not_ready" ]_vars

\* ------------------------------ properties of LlamaCppProcessAdapter.execute
IsData(line) == line.kind = "data"

RECURSIVE UpToStop(_)
\* the lines up to and including the first one with stop=true
UpToStop(ls) ==
  IF ls = << >> THEN << >>
  ELSE IF Head(ls).stop THEN <<Head(ls)>> ELSE <<Head(ls)>> \o UpToStop(Tail(ls))

\* The data lines of the response that are to become streaming results.
ToBeStreamed == UpToStop(SelectSeq(genSent, IsData))

\* The text of a content as requests hands it to execute().
AsDecoded(text) == [i \in DOMAIN EngineUtf8(text) |-> Latin1(EngineUtf8(text)[i])]

\* The generator has run to its end on a response that met no transport
\* failure and in which every data line carries a JSON object.
RanWithoutFailure ==
  /\ genPc \in {"completed", "returned", "raised"}
  /\ genFailure = "none"
  /\ \A i \in DOMAIN genSent : genSent[i].kind # "number"

\* C34: for a response without transport failure, execute() yields one
\* streaming result per parseable data line, in order, up to and including
\* the first line with stop=true, then exactly one completed result, and
\* nothing else; lines after the stop line give no result.
C34_OneResultPerDataLine ==
  RanWithoutFailure =>
     /\ genPc # "raised"
     /\ genOut = [i \in 1..(Len(ToBeStreamed) + 1) |->
                    IF i <= Len(ToBeStreamed) THEN "streaming" ELSE "completed"]
     /\ Len(genResults) = Len(ToBeStreamed)
     /\ \A i \in DOMAIN genResults :
           genResults[i] = Output(AsDecoded(ToBeStreamed[i].content), ToBeStreamed[i].stop)

\* C35: a line that is not valid JSON gives no result and does not end the
\* stream: in a response that holds such a line, the valid lines before and
\* after it are turned into results as they are without it, and the stream
\* ends with completed.
C35_MalformedLineSkipped ==
  (RanWithoutFailure /\ \E i \in DOMAIN genSent : genSent[i].kind = "bad_json") =>
     /\ genOut # << >> /\ genOut[Len(genOut)] = "completed"
     /\ Streamed(genOut) = Len(UpToStop(SelectSeq(genSent, IsData)))

\* C36: the adapter reaches the ready state only after a successful health
\* probe and a successful inference probe: whenever load() has returned
\* without raising, the engine it spawned was able to serve an inference
\* request; a health response alone never makes the adapter ready.
C36_ReadyNeedsInferenceProbe ==
  (adapterCall.op = "load" /\ adapterCall.raised = "") =>
     (adapterCall.spawned # 0 /\ procs[adapterCall.spawned].serves)

\* ----------------------------------------------- properties of the PID record
\* C37: the PID record is removed only at a confirmed stop: no step of
\* stop_runtime() deletes a well-formed record and leaves the process it
\* names alive, whatever stop_runtime() returns and however the shutdown
\* call ended.
C37_RecordRemovedOnlyWhenStopped ==
  [][ (stopPc \notin {"idle", "done"} /\ pidFile.content = "pid" /\ pidFile' # pidFile) =>
         daemons'[pidFile.pid] = "none" ]_vars

\* ------------------------------------------------ properties of POST /shutdown
\* C38: POST /shutdown leads to cooperative teardown before the daemon
\* exits: once a daemon that has handled a shutdown request is gone, its
\* engine process is gone too.
C38_NoEngineOutlivesDaemon ==
  \A p \in shutdownAsked : ~Running(p) => p \notin daemonEngine

\* ------------------------------------------- properties of concurrent requests
\* C39: a request that was in flight, past its load step, when the error
\* handler of another request unloaded the engine still ends with exactly one
\* terminal result, as its last result; and when it had not begun to execute
\* at that moment, it is not reported as completed.
C39_IndependentlyTerminated ==
  \A r \in Requests :
    unloadedUnder[r] # "" =>
      /\ Cardinality(Terminals(r)) <= 1
      /\ pc[r] = "done" => (Cardinality(Terminals(r)) = 1 /\ IsTerminal(LastOf(stream[r])))
      /\ unloadedUnder[r] = "executing" => Count(r, "completed") = 0

\* ------------------------------------------------ properties of the whole path
\* C40: when run_prompt is over, the text it has yielded is the concatenation
\* of the content fields of the engine's results relayed by POST /run, whatever
\* the tokens are, a token that repeats the previous one or begins with the
\* content received before included.
C40_YieldsConcatenation ==
  ClientFinished => Concat(deltas) = Concat([i \in DOMAIN sent |-> sent[i].content])

====
